---- MODULE Spec2Model ----
(***************************************************************************)
(* Model of the comic-search plugin's metadata normalization and linking   *)
(* engine: the ComicVine client's rate limiter, the import flow            *)
(* (createIssueNote, ensureCreatorNotesExist, getOrCreateRoleNote), the    *)
(* frontmatter parse/build pair and the cross-reference assembly.          *)
(*                                                                         *)
(* Text is modelled as sequences of one-character strings, so that split,  *)
(* trim, capitalisation and sanitisation are computed as the code computes *)
(* them.  Str turns such a sequence into a TLA+ string (for vault paths).  *)
(***************************************************************************)
EXTENDS Integers, Sequences, FiniteSets, TLC

\* ------------------------------------------------------------------------
\* Text helpers (JavaScript String methods used by the code)
\* ------------------------------------------------------------------------

RECURSIVE Str(_)
Str(s) == IF s = <<>> THEN "" ELSE Head(s) \o Str(Tail(s))

\* what JavaScript's \s, trim() and trimStart() treat as white space
IsSpace(c) == c \in {" ", "\n"}

RECURSIVE TrimStart(_)
TrimStart(s) ==
    IF s = <<>> THEN <<>>
    ELSE IF IsSpace(Head(s)) THEN TrimStart(Tail(s)) ELSE s

RECURSIVE TrimEnd(_)
TrimEnd(s) ==
    IF s = <<>> THEN <<>>
    ELSE IF IsSpace(s[Len(s)]) THEN TrimEnd(SubSeq(s, 1, Len(s) - 1)) ELSE s

Trim(s) == TrimEnd(TrimStart(s))

\* s.replace(/[...]/g, ''): drop every character of the class
RECURSIVE StripChars(_, _)
StripChars(s, class) ==
    IF s = <<>> THEN <<>>
    ELSE IF Head(s) \in class THEN StripChars(Tail(s), class)
         ELSE <<Head(s)>> \o StripChars(Tail(s), class)

\* s.split(','): the segments between the commas, empty ones included
RECURSIVE SplitFrom(_, _, _)
SplitFrom(s, sep, cur) ==
    IF s = <<>> THEN <<cur>>
    ELSE IF Head(s) = sep THEN <<cur>> \o SplitFrom(Tail(s), sep, <<>>)
         ELSE SplitFrom(Tail(s), sep, Append(cur, Head(s)))

Split(s, sep) == SplitFrom(s, sep, <<>>)

LowerLetters ==
    <<"a","b","c","d","e","f","g","h","i","j","k","l","m",
      "n","o","p","q","r","s","t","u","v","w","x","y","z">>

UpperLetters ==
    <<"A","B","C","D","E","F","G","H","I","J","K","L","M",
      "N","O","P","Q","R","S","T","U","V","W","X","Y","Z">>

\* c.toUpperCase() for one character
ToUpperChar(c) ==
    IF \E i \in 1..26 : LowerLetters[i] = c
    THEN UpperLetters[CHOOSE i \in 1..26 : LowerLetters[i] = c]
    ELSE c

SeqToSet(s) == { s[i] : i \in 1..Len(s) }

\* [...new Set(list)]: first occurrences, in insertion order
RECURSIVE Dedup(_)
Dedup(s) ==
    IF s = <<>> THEN <<>>
    ELSE LET r == Dedup(SubSeq(s, 1, Len(s) - 1))
         IN IF s[Len(s)] \in SeqToSet(r) THEN r ELSE Append(r, s[Len(s)])

Includes(list, x) == \E i \in 1..Len(list) : list[i] = x

\* the texts of at most n characters over an alphabet
RECURSIVE SeqsUpTo(_, _)
SeqsUpTo(alphabet, n) ==
    IF n = 0 THEN {<<>>}
    ELSE LET shorter == SeqsUpTo(alphabet, n - 1)
         IN shorter \cup { Append(s, c) : s \in shorter, c \in alphabet }

\* ------------------------------------------------------------------------
\* Field normalizer
\* ------------------------------------------------------------------------

WikilinkUnsafe == {"[", "]", "|", "#", "^"}

FileNameIllegal == {"<", ">", ":", "\"", "/", "\\", "|", "?", "*", "#", "^", "[", "]"}

cleanForWikilink(text) == Trim(StripChars(text, WikilinkUnsafe))

sanitizeForFileName(name) == Trim(StripChars(name, FileNameIllegal))

\* ------------------------------------------------------------------------
\* Dates (new Date(string) and its getters, for the strings the model draws)
\* ------------------------------------------------------------------------

\* null where a record is expected (a date string that is null or empty is <<>>)
Null == [null |-> TRUE]

Digits == <<"0","1","2","3","4","5","6","7","8","9">>

IsDigit(c) == \E i \in 1..10 : Digits[i] = c

DigitVal(c) == (CHOOSE i \in 1..10 : Digits[i] = c) - 1

RECURSIVE Num(_)
Num(s) == IF s = <<>> THEN 0 ELSE 10 * Num(SubSeq(s, 1, Len(s) - 1)) + DigitVal(s[Len(s)])

DaysInMonth(y, m) ==
    IF m = 2 THEN (IF (y % 4 = 0 /\ y % 100 # 0) \/ y % 400 = 0 THEN 29 ELSE 28)
    ELSE IF m \in {4, 6, 9, 11} THEN 30 ELSE 31

\* the calendar day before y-m-d
PrevDay(y, m, d) ==
    IF d > 1 THEN [y |-> y, m |-> m, d |-> d - 1]
    ELSE IF m > 1 THEN [y |-> y, m |-> m - 1, d |-> DaysInMonth(y, m - 1)]
    ELSE [y |-> y - 1, m |-> 12, d |-> 31]

\* the form of a date string new Date() accepts: year, year and month, full
\* date, or "YYYY-MM-DD 00:00:00", the form of the API's birth and death dates
Shape(s) ==
    LET digitsAt(a, b) == Len(s) >= b /\ \A i \in a..b : IsDigit(s[i])
        dashAt(a) == Len(s) >= a /\ s[a] = "-"
    IN IF Len(s) = 4 /\ digitsAt(1, 4) THEN "Y"
       ELSE IF Len(s) = 7 /\ digitsAt(1, 4) /\ dashAt(5) /\ digitsAt(6, 7) THEN "YM"
       ELSE IF Len(s) \in {10, 19} /\ digitsAt(1, 4) /\ dashAt(5) /\ digitsAt(6, 7)
               /\ dashAt(8) /\ digitsAt(9, 10)
               /\ (Len(s) = 19 =>
                     SubSeq(s, 11, 19) = <<" ","0","0",":","0","0",":","0","0">>)
       THEN (IF Len(s) = 10 THEN "YMD" ELSE "local")
       ELSE "none"

\* the calendar date a date string of that shape names, [ok |-> FALSE] when it
\* names none
FieldsOf(shape, y, m, d) ==
    IF shape # "none" /\ m \in 1..12 /\ d \in 1..DaysInMonth(y, m)
    THEN [ok |-> TRUE, shape |-> shape, y |-> y, m |-> m, d |-> d]
    ELSE [ok |-> FALSE, shape |-> shape]

Fields(s) ==
    FieldsOf(Shape(s),
             Num(SubSeq(s, 1, 4)),
             IF Len(s) >= 7 THEN Num(SubSeq(s, 6, 7)) ELSE 1,
             IF Len(s) >= 10 THEN Num(SubSeq(s, 9, 10)) ELSE 1)

\* new Date(s) of a string naming the date f: a date-only ISO string is
\* midnight UTC, a date with a time and no zone is midnight local time; tz is
\* the local zone's offset from UTC in hours (-23..23).  The result carries the
\* instant's calendar day as the UTC getters and as the local getters give it.
DateOf(f, tz) ==
    IF ~f.ok THEN f
    ELSE IF f.shape = "local"
    THEN [ok |-> TRUE, shape |-> f.shape,
          local |-> [y |-> f.y, m |-> f.m, d |-> f.d],
          utc |-> IF tz > 0 THEN PrevDay(f.y, f.m, f.d) ELSE [y |-> f.y, m |-> f.m, d |-> f.d]]
    ELSE [ok |-> TRUE, shape |-> f.shape,
          utc |-> [y |-> f.y, m |-> f.m, d |-> f.d],
          local |-> IF tz < 0 THEN PrevDay(f.y, f.m, f.d) ELSE [y |-> f.y, m |-> f.m, d |-> f.d]]

NewDate(s, tz) == DateOf(Fields(s), tz)

\* parseComicDate past its null test, date being new Date(dateString)
ComicDateInfo(dateString, date) ==
    IF ~date.ok THEN [value |-> dateString]
    ELSE [value |-> dateString, year |-> date.local.y,
          month |-> date.local.m, day |-> date.local.d]

parseComicDate(dateString, tz) ==
    IF dateString = <<>> THEN Null
    ELSE ComicDateInfo(dateString, NewDate(dateString, tz))

\* parseCreatorDate past its null test; the shapes "Y" and "YM" are the
\* strings that match /^\d{4}$/ and /^\d{4}-\d{2}$/
CreatorDateInfo(dateString, date) ==
    IF ~date.ok THEN [value |-> dateString]
    ELSE IF date.utc.y < 100 THEN [value |-> dateString]
    ELSE IF date.shape = "Y" THEN [value |-> dateString, year |-> date.utc.y]
    ELSE IF date.shape = "YM"
    THEN [value |-> dateString, year |-> date.utc.y, month |-> date.utc.m]
    ELSE [value |-> dateString, year |-> date.utc.y,
          month |-> date.utc.m, day |-> date.utc.d]

parseCreatorDate(dateString, tz) ==
    IF dateString = <<>> THEN Null
    ELSE CreatorDateInfo(dateString, NewDate(dateString, tz))

\* ------------------------------------------------------------------------
\* Settings (DEFAULT_SETTINGS) and the role hierarchy table
\* ------------------------------------------------------------------------

comicsFolder == "Comics"

peopleFolder == "Entities/People"

conceptsFolder == comicsFolder \o "/Concepts"

createCreatorNotes == TRUE

defaultPageCount == 22

\* roleHierarchy of getOrCreateRoleNote: capitalized role -> parent role
roleHierarchy ==
    { << <<"P","e","n","c","i","l","e","r">>, <<"A","r","t","i","s","t">> >>,
      << <<"P","e","n","c","i","l","l","e","r">>, <<"A","r","t","i","s","t">> >>,
      << <<"I","n","k","e","r">>, <<"A","r","t","i","s","t">> >>,
      << <<"C","o","l","o","r","i","s","t">>, <<"A","r","t","i","s","t">> >>,
      << <<"C","o","v","e","r"," ","a","r","t","i","s","t">>, <<"A","r","t","i","s","t">> >>,
      << <<"S","c","r","i","p","t">>, <<"W","r","i","t","e","r">> >> }

HasParent(cap) == \E e \in roleHierarchy : e[1] = cap

ParentOf(cap) == (CHOOSE e \in roleHierarchy : e[1] = cap)[2]

\* ------------------------------------------------------------------------
\* Bounds of the model
\* ------------------------------------------------------------------------

\* imports started in one behaviour of Spec (imports may overlap)
MaxImports == 2

\* imports started in one behaviour of SpecSeq (one import at a time)
MaxSeqImports == 2

\* imports into a vault that holds a legacy note
MaxMergeImports == 2

\* length of the role strings drawn over the small alphabet
MaxRoleLen == 4

\* length of the tag texts drawn over the small alphabet
MaxTagLen == 3

\* results in the envelope of a response
MaxResults == 1

\* nested getOrCreateRoleNote calls followed
MaxDepth == 4

\* issues of the catalogue the user may pick
NumIssues == 2

\* the issue whose volume is on offer as a volume search result
VolumeIssue == 3

\* hand edits of a person note's free text in one behaviour
MaxEdits == 1

\* longest free text the user types
MaxBodyLen == 2

\* the two import operations that may be in progress at once
Proc == {1, 2}

\* the rateLimitDelay setting, in ticks of the clock
rateLimitDelay == 2

\* ticks of the clock in one behaviour of SpecRate
MaxTicks == 4

\* searches started from the modal in one behaviour of SpecRate
MaxSearches == 3

\* creators credited in the issue SpecRate imports
NumCreators == 2

\* longest name SpecLinks draws
MaxNameLen == 2

\* the most rateLimitedFetch calls of one behaviour of SpecRate: the searches,
\* the issue and volume requests and one request per creator
MaxCalls == MaxSearches + 2 + NumCreators

\* the ComicVineClient objects: the modal's (ComicSearchModal constructor),
\* createIssueNote's and ensureCreatorNotesExist's
Clients == {"modal", "issue", "creators"}

\* ------------------------------------------------------------------------
\* The metadata API's database (what the detail endpoints return)
\* ------------------------------------------------------------------------

RoleWriter == <<"w","r","i","t","e","r">>

RolePencilerInker ==
    <<"p","e","n","c","i","l","e","r",","," ","i","n","k","e","r">>

RolePenciler == <<"P","e","n","c","i","l","e","r">>

RoleWriterTrailing == <<"w","r","i","t","e","r",","," ">>

\* issue id -> the issue detail record (volume name, issue_number, person_credits)
Catalog(i) ==
    CASE i = 1 ->
           [volume |-> <<"X">>, issue_number |-> <<"1">>,
            person_credits |->
              << [id |-> 1, name |-> <<"C","C">>, role |-> RoleWriter],
                 [id |-> 2, name |-> <<"J","B">>, role |-> RolePencilerInker] >>]
      [] i = 2 ->
           [volume |-> <<"X">>, issue_number |-> <<"2">>,
            person_credits |->
              << [id |-> 2, name |-> <<"J",".","B">>, role |-> RolePenciler] >>]
      [] i = 3 ->
           [volume |-> <<"Y">>, issue_number |-> <<"1">>,
            person_credits |->
              << [id |-> 3, name |-> <<"J","B">>, role |-> RoleWriterTrailing],
                 [id |-> 3, name |-> <<"J","B">>, role |-> RolePenciler],
                 [id |-> 1, name |-> <<"C","C">>, role |-> RoleWriter] >>]
      [] OTHER ->
           [volume |-> <<"Z">>, issue_number |-> <<"1">>, person_credits |-> <<>>]

\* person id -> the person detail record's name
PersonName(id) ==
    CASE id = 1 -> <<"C","C">>
      [] id = 2 -> <<"J","B">>
      [] OTHER -> <<"J","B">>

\* person id -> the person detail record (ComicVinePerson); birth is a date
\* string, death the date string of the death object (<<>> for null)
PersonDetails(id) ==
    [id |-> id, name |-> PersonName(id),
     site_detail_url |-> IF id = 1 THEN "cv/1" ELSE "cv/2",
     birth |-> IF id = 1 THEN <<"1","9","5","0">>
               ELSE <<"1","9","5","0","-","0","6","-","1","9">>,
     death |-> IF id = 1 THEN <<>> ELSE <<"2","0","2","0","-","0","1">>]

\* ------------------------------------------------------------------------
\* State
\* ------------------------------------------------------------------------

VARIABLES
    vault,       \* document store: path -> document
    folders,     \* folders of the store
    imp,         \* per import operation: position and locals of createIssueNote
    modalOpen,   \* the search modal is open
    searchType,  \* ComicSearchModal.searchType
    started,     \* imports started so far
    edits,       \* hand edits so far
    roleEvents   \* history: role resolutions and role document creations

engineVars == <<vault, folders, imp, modalOpen, searchType, started, edits, roleEvents>>

\* the rate limiter seen on its own
VARIABLES
    clock,            \* Date.now(), in ticks
    lastRequestTime,  \* client -> ComicVineClient.lastRequestTime
    calls,            \* the rateLimitedFetch calls begun so far
    dispatched,       \* history: the requests handed to requestUrl, in order
    fetcher,          \* the import whose requests are followed
    resultsContainer  \* the modal's results: the search whose results are shown
                      \* (0: none), the modal closed, results rendered after that

rateVars == <<clock, lastRequestTime, calls, dispatched, fetcher, resultsContainer>>

\* the cross-reference assembly seen on its own
VARIABLES
    rawName,   \* a name as the API returns it
    site,      \* the place of the code that has made a link of it
    linkText   \* the link that place wrote

\* the field normalizer seen on its own
VARIABLES
    rawText,      \* a date string or a role string as the API returns it
    zone,         \* the local time zone's offset from UTC, in hours
    rawCredits,   \* person_credits of an issue record
    fnDone,       \* the functions applied so far
    dateOut,      \* the result of the date function applied
    creatorsOut,  \* processIssueData's creators: role -> names, in insertion order
    headerOut,    \* the creator keys of the issue header, in the order they are set
    tagOut,       \* the tag sanitizeForTag made of the text
    rawIssue,     \* an issue detail record and the tracker setting (Null: none given)
    issueYaml,    \* the literal keys of the issue header, in the order they are set
    apiCall,      \* a client operation and the envelopes of its responses (Null: none)
    apiOut,       \* what the operation gave its caller: results returned or an Error thrown
    table,        \* the parent table getOrCreateRoleNote looks roles up in
    inProgress,   \* the roles of the getOrCreateRoleNote calls in progress, outermost first
    roleNotes     \* the roles that have a role note

fnVars == <<rawText, zone, rawCredits, fnDone, dateOut, creatorsOut, headerOut,
            tagOut, rawIssue, issueYaml, apiCall, apiOut, table, inProgress, roleNotes>>

linkVars == <<rawName, site, linkText, fnVars>>

\* ------------------------------------------------------------------------
\* Documents and paths
\* ------------------------------------------------------------------------

\* UTF-16 code units of the characters that occur in role links (Array.sort order)
CharCode(c) ==
    IF \E i \in 1..26 : UpperLetters[i] = c
    THEN 64 + (CHOOSE i \in 1..26 : UpperLetters[i] = c)
    ELSE IF \E i \in 1..26 : LowerLetters[i] = c
    THEN 96 + (CHOOSE i \in 1..26 : LowerLetters[i] = c)
    ELSE CASE c = " " -> 32 [] c = "(" -> 40 [] c = ")" -> 41
           [] c = "[" -> 91 [] c = "]" -> 93 [] OTHER -> 0

RECURSIVE StrLess(_, _)
StrLess(a, b) ==
    IF b = <<>> THEN FALSE
    ELSE IF a = <<>> THEN TRUE
    ELSE IF CharCode(Head(a)) # CharCode(Head(b))
         THEN CharCode(Head(a)) < CharCode(Head(b))
         ELSE StrLess(Tail(a), Tail(b))

RECURSIVE InsertSorted(_, _)
InsertSorted(list, x) ==
    IF list = <<>> THEN <<x>>
    ELSE IF StrLess(x, Head(list)) THEN <<x>> \o list
         ELSE <<Head(list)>> \o InsertSorted(Tail(list), x)

\* Array.prototype.sort() on a list of strings
RECURSIVE SortStrings(_)
SortStrings(list) ==
    IF list = <<>> THEN <<>>
    ELSE InsertSorted(SortStrings(Tail(list)), Head(list))

\* `[[${basename}]]`
Link(basename) == <<"[", "[">> \o basename \o <<"]", "]">>

\* String(issue_number).padStart(3, '0')
PadStart3(num) ==
    IF Len(num) >= 3 THEN num
    ELSE IF Len(num) = 2 THEN <<"0">> \o num
    ELSE IF Len(num) = 1 THEN <<"0", "0">> \o num
    ELSE <<"0", "0", "0">>

\* generateFileName without the .md extension (TFile.basename)
generateFileName(volumeName, issueNumber) ==
    sanitizeForFileName(volumeName) \o <<" ", "#">> \o PadStart3(issueNumber)

IssueBaseName(i) == generateFileName(Catalog(i).volume, Catalog(i).issue_number)

IssuePath(i) == comicsFolder \o "/" \o Str(IssueBaseName(i)) \o ".md"

\* folderPath = targetFolder || comicsFolder; filePath = `${folderPath}/${fileName}`
IssuePathIn(targetFolder, i) ==
    (IF targetFolder = "" THEN comicsFolder ELSE targetFolder)
        \o "/" \o Str(IssueBaseName(i)) \o ".md"

PersonPath(name) == peopleFolder \o "/" \o Str(sanitizeForFileName(name)) \o ".md"

\* a variant that leaves the first letter as written
capitalizedRoleRaw(roleName) == Trim(roleName)

\* roleName.charAt(0).toUpperCase() + roleName.slice(1).trim()
capitalizedRole(roleName) ==
    IF roleName = <<>> THEN <<>>
    ELSE <<ToUpperChar(Head(roleName))>> \o Trim(Tail(roleName))

RoleBaseName(cap) == sanitizeForFileName(cap) \o <<" ", "(", "R", "o", "l", "e", ")">>

RolePath(cap) == conceptsFolder \o "/" \o Str(RoleBaseName(cap)) \o ".md"

\* the header of a person note with no key set; modified is the
\* 'modification date' (the serial of the import that wrote it, 0 when unset)
EmptyFm ==
    [entityType |-> "", name |-> <<>>, comicVineId |-> 0, comicVineUrl |-> "",
     birthDate |-> Null, deathDate |-> Null, modified |-> 0,
     tags |-> <<>>, roles |-> <<>>, credits |-> <<>>]

\* the issue note written by import n (its 'creation date' is n)
IssueDoc(i, n) == [kind |-> "issue", id |-> i, created |-> n]

\* a variant that writes no subConceptOf link
RoleDocNoParent(cap) == [kind |-> "role", name |-> cap, subConceptOf |-> <<>>]

\* the role note getOrCreateRoleNote writes (parentRoleNote.basename is the
\* basename of the parent's file)
RoleDoc(cap) ==
    [kind |-> "role", name |-> cap,
     subConceptOf |-> IF HasParent(cap) THEN Link(RoleBaseName(ParentOf(cap))) ELSE <<>>]

\* A person note is its header (hasFm: the file starts with a --- block) and
\* its body, the text that follows the closing delimiter line (the whole file
\* when there is no header).
parseFrontmatter(doc) ==
    IF doc.hasFm
    THEN \* /^---\s*[\r\n]+([\s\S]*?)[\r\n]+---\s*[\r\n]?([\s\S]*)$/ : the \s* after
         \* the closing --- is greedy and takes the line break and every white
         \* space character that follows; group 2 is the rest
         [frontmatter |-> doc.fm, body |-> TrimStart(<<"\n">> \o doc.body)]
    ELSE [frontmatter |-> EmptyFm, body |-> doc.body]

\* `---\n${trimmedYaml}\n---\n${body.trimStart()}`; a header with no keys gives
\* the trimmed body alone
buildFrontmatter(fm, body) ==
    IF fm = EmptyFm
    THEN [kind |-> "person", hasFm |-> FALSE, fm |-> EmptyFm, body |-> TrimStart(body)]
    ELSE [kind |-> "person", hasFm |-> TRUE, fm |-> fm, body |-> TrimStart(body)]

IsPersonNote(v, x) == x \in DOMAIN v /\ v[x].kind = "person"

\* a variant that looks the note up by file name only
findPersonNoteByName(v, creatorId, creatorName) ==
    IF IsPersonNote(v, PersonPath(creatorName)) THEN PersonPath(creatorName) ELSE ""

\* a variant that tries the file name before the external id
findPersonNoteNameFirst(v, creatorId, creatorName) ==
    LET byId == { x \in DOMAIN v : IsPersonNote(v, x) /\ v[x].hasFm
                                   /\ v[x].fm.comicVineId = creatorId }
    IN IF IsPersonNote(v, PersonPath(creatorName)) THEN PersonPath(creatorName)
       ELSE IF byId # {} THEN CHOOSE x \in byId : TRUE
       ELSE ""

\* the notes of the people folder are the notes of kind "person"; the header
\* cache is the header of the file as stored.  "" stands for undefined.
findPersonNote(v, creatorId, creatorName) ==
    LET byId == { x \in DOMAIN v : IsPersonNote(v, x) /\ v[x].hasFm
                                   /\ v[x].fm.comicVineId = creatorId }
    IN IF byId # {} THEN CHOOSE x \in byId : TRUE
       ELSE IF IsPersonNote(v, PersonPath(creatorName)) THEN PersonPath(creatorName)
       ELSE ""

\* uniqueCreators of ensureCreatorNotesExist: one entry per id, in first-
\* occurrence order, the roles of later entries of the same id appended
SplitRoles(role) ==
    LET segs == Split(role, ",") IN [k \in 1..Len(segs) |-> Trim(segs[k])]

\* a variant that keeps one entry per credit
uniqueCreatorsPerCredit(credits) ==
    [k \in 1..Len(credits) |->
        [id |-> credits[k].id, name |-> credits[k].name, roles |-> SplitRoles(credits[k].role)]]

RECURSIVE uniqueCreators(_)
uniqueCreators(credits) ==
    IF credits = <<>> THEN <<>>
    ELSE LET rest == uniqueCreators(SubSeq(credits, 1, Len(credits) - 1))
             c == credits[Len(credits)]
         IN IF \E k \in 1..Len(rest) : rest[k].id = c.id
            THEN [k \in 1..Len(rest) |->
                    IF rest[k].id = c.id
                    THEN [rest[k] EXCEPT !.roles = @ \o SplitRoles(c.role)]
                    ELSE rest[k]]
            ELSE Append(rest, [id |-> c.id, name |-> c.name, roles |-> SplitRoles(c.role)])

\* ------------------------------------------------------------------------
\* One import operation (createIssueNote and what it calls)
\* ------------------------------------------------------------------------

\* the getOrCreateRoleNote call in progress: the role asked for, the role notes
\* of the store when it was called, the notes it has created; folder is
\* createIssueNote's targetFolder ("" when the argument is not given)
NoRes == [raw |-> <<>>, before |-> {}, created |-> {}]

Ev(e, k) == [e |-> e, k |-> k]

IdleImport ==
    [pc |-> "idle", outcome |-> "", n |-> 0, issue |-> 0, creators |-> <<>>, ci |-> 0,
     personFile |-> "", fm |-> EmptyFm, body |-> <<>>, changed |-> FALSE,
     pending |-> <<>>, rstack |-> <<>>,
     res |-> NoRes,
     log |-> <<>>, signal |-> "none", failNotices |-> {}, promise |-> "none",
     folder |-> "",
     cancelledInSpacing |-> FALSE, wroteAfterCancel |-> FALSE]

InProgress(r) == r.pc \notin {"idle", "done"}

RolePaths(v) == { x \in DOMAIN v : v[x].kind = "role" }

\* a document write by the import r (vault.create / vault.modify), as seen by
\* the history fields
Wrote(r, what) ==
    [r EXCEPT !.log = Append(@, Ev(what, r.ci)),
              !.wroteAfterCancel = @ \/ r.cancelledInSpacing]

\* the catch block of createIssueNote: the error is reported by a Notice and
\* createIssueNote returns normally
Caught(r) ==
    [r EXCEPT !.pc = "done", !.outcome = "failed", !.pending = <<>>, !.rstack = <<>>,
              !.res = NoRes, !.promise = "resolved"]

\* for (const creator of uniqueCreators.values()): entry k of the loop, up to
\* the dispatch of getPersonDetails; past the last entry the import completes
\* (with no targetFolder the issue note is opened)
StartCreator(r, k, v) ==
    IF k > Len(r.creators)
    THEN [r EXCEPT !.pc = "done", !.outcome = "created", !.ci = k,
                   !.log = IF r.folder = "" THEN Append(@, Ev("open", 0)) ELSE @,
                   !.promise = "resolved"]
    ELSE LET c == r.creators[k]
             pf == findPersonNote(v, c.id, c.name)
             parsed == IF pf # ""
                       THEN parseFrontmatter(v[pf])
                       ELSE [frontmatter |-> EmptyFm,
                             body |-> <<"#", " ">> \o c.name \o <<"\n", "\n">>]
         IN [r EXCEPT !.ci = k, !.personFile = pf, !.fm = parsed.frontmatter,
                      !.body = parsed.body, !.changed = FALSE,
                      !.pc = "personFetch", !.log = Append(@, Ev("fetchPerson", k))]

\* if (!frontmatter.tags.includes(tag)) frontmatter.tags.push(tag)
AddTag(tags, tag) == IF Includes(tags, tag) THEN tags ELSE Append(tags, tag)

\* if (info && !frontmatter.birthDate) frontmatter.birthDate = info
FillDate(old, info) == IF info # Null /\ old = Null THEN info ELSE old

\* the header after lines 879-926: a scalar is set when its value in the note
\* is falsy, the entity type also when it is "ComicCreator"; a new note gets
\* both tags, an existing one the tags it lacks
MergedHeader(f0, personDetails, isNew) ==
    [f0 EXCEPT
       !.entityType = IF @ \in {"", "ComicCreator"} THEN "Person" ELSE @,
       !.name = IF @ = <<>> THEN personDetails.name ELSE @,
       !.comicVineId = IF @ = 0 THEN personDetails.id ELSE @,
       !.comicVineUrl = IF @ = "" THEN personDetails.site_detail_url ELSE @,
       !.birthDate = FillDate(@, parseCreatorDate(personDetails.birth, 0)),
       !.deathDate = FillDate(@, parseCreatorDate(personDetails.death, 0)),
       !.tags = AddTag(AddTag(IF isNew THEN <<"person", "comic-creator">> ELSE @,
                              "person"), "comic-creator")]

\* `changed` is set by every assignment that alters the header and by the
\* creation of a new note; 'modification date' is set without marking a change
SetMerged(r, fm) ==
    [r EXCEPT !.fm = [fm EXCEPT !.modified = r.n],
              !.changed = (fm # r.fm) \/ (r.personFile = "")]

\* a variant that takes the fetched name whatever the note holds
MergeDetailsFreshName(r) ==
    SetMerged(r, [MergedHeader(r.fm, PersonDetails(r.creators[r.ci].id),
                               r.personFile = "")
                    EXCEPT !.name = PersonName(r.creators[r.ci].id)])

\* the scalar and tag merge of ensureCreatorNotesExist (lines 879-926)
MergeDetails(r) ==
    SetMerged(r, MergedHeader(r.fm, PersonDetails(r.creators[r.ci].id),
                              r.personFile = ""))

\* a variant that replaces the role list by the new link
MergeRoleReplace(r, cap) ==
    LET roleLink == Link(RoleBaseName(cap))
        newCredit == [role |-> roleLink, work |-> Link(IssueBaseName(r.issue))]
        addCredit == ~Includes(r.fm.credits, newCredit)
    IN [r EXCEPT !.fm.roles = <<roleLink>>,
                 !.fm.credits = IF addCredit THEN Append(@, newCredit) ELSE @,
                 !.changed = TRUE]

\* the role link and the (role, work) credit of one resolved role (lines 931-945)
MergeRole(r, cap) ==
    LET roleLink == Link(RoleBaseName(cap))
        newCredit == [role |-> roleLink, work |-> Link(IssueBaseName(r.issue))]
        addRole == ~Includes(r.fm.roles, roleLink)
        addCredit == ~Includes(r.fm.credits, newCredit)
    IN [r EXCEPT !.fm.roles = IF addRole THEN Append(@, roleLink) ELSE @,
                 !.fm.credits = IF addCredit THEN Append(@, newCredit) ELSE @,
                 !.changed = @ \/ addRole \/ addCredit]

\* getOrCreateRoleNote's descent: the role and its ancestors that have no note
\* yet, the role first
RECURSIVE MissingChain(_, _)
MissingChain(cap, v) ==
    IF RolePath(cap) \in DOMAIN v THEN <<>>
    ELSE <<cap>> \o (IF HasParent(cap) THEN MissingChain(ParentOf(cap), v) ELSE <<>>)

\* a variant that writes the note whether or not anything changed
WritePersonAlways(st) ==
    LET r == st.r
        fm == [r.fm EXCEPT !.roles = SortStrings(@), !.modified = r.n]
        content == buildFrontmatter(fm, r.body)
        path == PersonPath(r.creators[r.ci].name)
    IN IF r.personFile # ""
       THEN [st EXCEPT !.v = [st.v EXCEPT ![r.personFile] = content],
                       !.r = [Wrote(r, "writePerson") EXCEPT !.pc = "nextCreator"]]
       ELSE IF path \in DOMAIN st.v
       THEN [st EXCEPT !.r = Caught(r)]
       ELSE [st EXCEPT !.v = st.v @@ (path :> content),
                       !.r = [Wrote(r, "writePerson") EXCEPT !.pc = "nextCreator",
                                                             !.personFile = path]]

\* if (changed) { roles.sort(); ... modify or create }: the write of the
\* person note, then the await of it; with nothing changed the loop goes on
WritePerson(st) ==
    LET r == st.r
        fm == [r.fm EXCEPT !.roles = SortStrings(@), !.modified = r.n]
        content == buildFrontmatter(fm, r.body)
        path == PersonPath(r.creators[r.ci].name)
    IN IF ~r.changed
       THEN [st EXCEPT !.r = StartCreator(r, r.ci + 1, st.v)]
       ELSE IF r.personFile # ""
       THEN [st EXCEPT !.v = [st.v EXCEPT ![r.personFile] = content],
                       !.r = [Wrote(r, "writePerson") EXCEPT !.pc = "nextCreator"]]
       ELSE IF path \in DOMAIN st.v
       THEN \* vault.create rejects an existing path
            [st EXCEPT !.r = Caught(r)]
       ELSE [st EXCEPT !.v = st.v @@ (path :> content),
                       !.r = [Wrote(r, "writePerson") EXCEPT !.pc = "nextCreator",
                                                             !.personFile = path]]

\* for (const roleName of new Set(creator.roles)): runs until a role note has
\* to be created (an await of vault.create) or the roles are exhausted
RECURSIVE RunRoles(_)
RunRoles(st) ==
    LET r == st.r IN
    IF r.pending = <<>> THEN WritePerson(st)
    ELSE LET roleName == Head(r.pending)
             cap == capitalizedRole(roleName)
         IN IF roleName = <<>>
            THEN RunRoles([st EXCEPT !.r.pending = Tail(@)])
            ELSE IF RolePath(cap) \in DOMAIN st.v
            THEN RunRoles([st EXCEPT
                     !.f = @ \cup {conceptsFolder},
                     !.r = [MergeRole(r, cap) EXCEPT !.pending = Tail(@)],
                     !.ev = @ \cup {[ev |-> "resolve", n |-> r.n, raw |-> roleName,
                                     path |-> RolePath(cap),
                                     before |-> RolePaths(st.v), created |-> {}]}])
            ELSE LET chain == MissingChain(cap, st.v)
                     deepest == chain[Len(chain)]
                 IN [st EXCEPT
                       !.f = @ \cup {conceptsFolder},
                       !.v = st.v @@ (RolePath(deepest) :> RoleDoc(deepest)),
                       !.r = [Wrote(r, "writeRole") EXCEPT
                                !.pc = "roleCreate",
                                !.rstack = SubSeq(chain, 1, Len(chain) - 1),
                                !.res = [raw |-> roleName, before |-> RolePaths(st.v),
                                         created |-> {RolePath(deepest)}]],
                       !.ev = @ \cup {[ev |-> "create", n |-> r.n,
                                       raw |-> IF Len(chain) = 1 THEN roleName ELSE deepest,
                                       path |-> RolePath(deepest),
                                       before |-> {}, created |-> {}]}]

Machine(p) == [r |-> imp[p], v |-> vault, f |-> folders, ev |-> roleEvents]

Commit(p, st) ==
    /\ imp' = [imp EXCEPT ![p] = st.r]
    /\ vault' = st.v
    /\ folders' = st.f
    /\ roleEvents' = st.ev

\* ------------------------------------------------------------------------
\* Actions of the engine
\* ------------------------------------------------------------------------

\* free text a user may give a person note
Bodies == SeqsUpTo({"\n", "a"}, MaxBodyLen)

\* AbortController.abort() of the modal an import was chosen from
Abort(r) ==
    IF r.signal = "live"
    THEN [r EXCEPT !.signal = "aborted",
                   !.cancelledInSpacing = @ \/ (r.pc = "volWait")]
    ELSE r

\* plugin ribbon icon / command: new ComicSearchModal(...).open(), a search,
\* results displayed
OpenModal ==
    /\ ~modalOpen
    /\ modalOpen' = TRUE
    /\ searchType' = "simple"
    /\ UNCHANGED <<vault, folders, imp, started, edits, roleEvents>>
    /\ UNCHANGED <<rateVars, linkVars>>

\* the "Search for:" dropdown's onChange
SetSearchType(t) ==
    /\ modalOpen
    /\ t # searchType
    /\ searchType' = t
    /\ UNCHANGED <<vault, folders, imp, modalOpen, started, edits, roleEvents>>
    /\ UNCHANGED <<rateVars, linkVars>>

\* ComicSearchModal.onClose: the user closes the modal
CloseModal ==
    /\ modalOpen
    /\ modalOpen' = FALSE
    /\ searchType' = "simple"
    /\ imp' = [q \in Proc |-> Abort(imp[q])]
    /\ UNCHANGED <<vault, folders, started, edits, roleEvents>>
    /\ UNCHANGED <<rateVars, linkVars>>

\* ComicSearchModal.onChooseItem for an issue: the modal closes unless the
\* search type is 'creator'; createIssueNote starts and dispatches
\* getIssueDetails (a new client has lastRequestTime 0: no spacing delay)
onChooseItem(p, i) ==
    /\ modalOpen
    /\ ~InProgress(imp[p])
    /\ \A q \in Proc : q < p => InProgress(imp[q])
    /\ LET closing == searchType # "creator"
           fresh == [IdleImport EXCEPT !.pc = "issueFetch", !.issue = i,
                                       !.n = started + 1,
                                       !.log = <<Ev("fetchIssue", 0)>>,
                                       !.promise = "pending",
                                       !.signal = IF closing THEN "aborted" ELSE "live"]
       IN /\ modalOpen' = ~closing
          /\ searchType' = IF closing THEN "simple" ELSE searchType
          /\ imp' = [q \in Proc |->
                       IF q = p THEN fresh
                       ELSE IF closing THEN Abort(imp[q]) ELSE imp[q]]
    /\ started' = started + 1
    /\ UNCHANGED <<vault, folders, edits, roleEvents>>
    /\ UNCHANGED <<rateVars, linkVars>>

\* the response of getIssueDetails; on success getVolumeDetails is called and
\* waits out the client's spacing delay
IssueResponse(p, ok) ==
    /\ imp[p].pc = "issueFetch"
    /\ imp' = [imp EXCEPT ![p] = IF ok THEN [@ EXCEPT !.pc = "volWait"] ELSE Caught(@)]
    /\ UNCHANGED <<vault, folders, modalOpen, searchType, started, edits, roleEvents>>
    /\ UNCHANGED <<rateVars, linkVars>>

\* the spacing timer fires: the volume request is dispatched
VolumeDispatch(p) ==
    /\ imp[p].pc = "volWait"
    /\ imp' = [imp EXCEPT ![p] = [@ EXCEPT !.pc = "volFetch",
                                           !.log = Append(@, Ev("fetchVolume", 0))]]
    /\ UNCHANGED <<vault, folders, modalOpen, searchType, started, edits, roleEvents>>
    /\ UNCHANGED <<rateVars, linkVars>>

\* a variant that goes on to the creators without creating the issue note
VolumeResponseNoCreate(p, ok) ==
    /\ imp[p].pc = "volFetch"
    /\ imp' = [imp EXCEPT ![p] = IF ok THEN [@ EXCEPT !.pc = "creators"] ELSE Caught(@)]
    /\ UNCHANGED <<vault, folders, modalOpen, searchType, started, edits, roleEvents>>
    /\ UNCHANGED <<rateVars, linkVars>>

\* a variant that writes the issue note over an existing one
VolumeResponseOverwrite(p, ok) ==
    /\ imp[p].pc = "volFetch"
    /\ LET r == imp[p]
           filePath == IssuePathIn(r.folder, r.issue)
       IN IF ~ok
          THEN /\ imp' = [imp EXCEPT ![p] = Caught(r)]
               /\ UNCHANGED <<vault, folders>>
          ELSE /\ vault' = [x \in DOMAIN vault \cup {filePath} |->
                              IF x = filePath THEN IssueDoc(r.issue, r.n) ELSE vault[x]]
               /\ folders' = folders \cup {IF r.folder = "" THEN comicsFolder ELSE r.folder}
               /\ imp' = [imp EXCEPT ![p] = [Wrote(r, "writeIssue") EXCEPT !.pc = "creators"]]
    /\ UNCHANGED <<modalOpen, searchType, started, edits, roleEvents>>
    /\ UNCHANGED <<rateVars, linkVars>>

\* the response of getVolumeDetails; on success the issue note is assembled
\* and, unless a note exists at its path, created
VolumeResponse(p, ok) ==
    /\ imp[p].pc = "volFetch"
    /\ LET r == imp[p]
           filePath == IssuePathIn(r.folder, r.issue)
       IN IF ~ok
          THEN /\ imp' = [imp EXCEPT ![p] = Caught(r)]
               /\ UNCHANGED <<vault, folders>>
          ELSE IF filePath \in DOMAIN vault
          THEN /\ imp' = [imp EXCEPT ![p] = [r EXCEPT !.pc = "done", !.outcome = "exists",
                                                      !.promise = "resolved"]]
               /\ folders' = folders \cup {IF r.folder = "" THEN comicsFolder ELSE r.folder}
               /\ UNCHANGED vault
          ELSE /\ vault' = vault @@ (filePath :> IssueDoc(r.issue, r.n))
               /\ folders' = folders \cup {IF r.folder = "" THEN comicsFolder ELSE r.folder}
               /\ imp' = [imp EXCEPT ![p] = [Wrote(r, "writeIssue") EXCEPT !.pc = "creators"]]
    /\ UNCHANGED <<modalOpen, searchType, started, edits, roleEvents>>
    /\ UNCHANGED <<rateVars, linkVars>>

\* ensureCreatorNotesExist(detailedIssue.person_credits, file), up to the
\* dispatch of the first creator's detail fetch
EnsureCreatorNotes(p) ==
    /\ imp[p].pc = "creators"
    /\ LET r == imp[p]
           credits == Catalog(r.issue).person_credits
       IN IF ~createCreatorNotes \/ credits = <<>>
          THEN /\ imp' = [imp EXCEPT ![p] = StartCreator(r, 1, vault)]
               /\ UNCHANGED folders
          ELSE /\ imp' = [imp EXCEPT ![p] =
                            StartCreator([r EXCEPT !.creators = uniqueCreators(credits)],
                                         1, vault)]
               /\ folders' = folders \cup {peopleFolder}
    /\ UNCHANGED <<vault, modalOpen, searchType, started, edits, roleEvents>>
    /\ UNCHANGED <<rateVars, linkVars>>

\* a variant in which a failed detail fetch leaves ensureCreatorNotesExist
PersonResponseAbort(p, ok) ==
    /\ imp[p].pc = "personFetch"
    /\ LET r == imp[p]
       IN IF ~ok
          THEN /\ imp' = [imp EXCEPT ![p] = Caught([r EXCEPT !.failNotices = @ \cup {r.ci}])]
               /\ UNCHANGED <<vault, folders, roleEvents>>
          ELSE Commit(p, RunRoles([Machine(p) EXCEPT
                                     !.r = [MergeDetails(r) EXCEPT
                                              !.pending = Dedup(r.creators[r.ci].roles)]]))
    /\ UNCHANGED <<modalOpen, searchType, started, edits>>
    /\ UNCHANGED <<rateVars, linkVars>>

\* the response of getPersonDetails: a failure is caught and the loop continues
\* with the next creator; a success merges the details and runs the role loop
PersonResponse(p, ok) ==
    /\ imp[p].pc = "personFetch"
    /\ LET r == imp[p]
       IN IF ~ok
          THEN \* catch: Notice "Failed to fetch details for ...", continue
               /\ imp' = [imp EXCEPT ![p] =
                            StartCreator([r EXCEPT !.failNotices = @ \cup {r.ci}],
                                         r.ci + 1, vault)]
               /\ UNCHANGED <<vault, folders, roleEvents>>
          ELSE Commit(p, RunRoles([Machine(p) EXCEPT
                                     !.r = [MergeDetails(r) EXCEPT
                                              !.pending = Dedup(r.creators[r.ci].roles)]]))
    /\ UNCHANGED <<modalOpen, searchType, started, edits>>
    /\ UNCHANGED <<rateVars, linkVars>>

\* a vault.create of a role note has completed: either the next note of the
\* chain (the child of the one just created) is created, or the top-level
\* getOrCreateRoleNote returns and the role loop goes on
RoleCreated(p) ==
    /\ imp[p].pc = "roleCreate"
    /\ LET r == imp[p]
           roleName == Head(r.pending)
       IN IF r.rstack = <<>>
          THEN LET cap == capitalizedRole(roleName)
               IN Commit(p, RunRoles([Machine(p) EXCEPT
                       !.r = [MergeRole(r, cap) EXCEPT
                                !.pending = Tail(@), !.pc = "roles", !.res = NoRes],
                       !.ev = @ \cup {[ev |-> "resolve", n |-> r.n, raw |-> roleName,
                                       path |-> RolePath(cap),
                                       before |-> r.res.before,
                                       created |-> r.res.created]}]))
          ELSE LET next == r.rstack[Len(r.rstack)]
               IN IF RolePath(next) \in DOMAIN vault
                  THEN \* vault.create rejects an existing path; the error leaves
                       \* ensureCreatorNotesExist and is caught by createIssueNote
                       /\ imp' = [imp EXCEPT ![p] = Caught(r)]
                       /\ UNCHANGED <<vault, folders, roleEvents>>
                  ELSE /\ vault' = vault @@ (RolePath(next) :> RoleDoc(next))
                       /\ imp' = [imp EXCEPT ![p] =
                            [Wrote(r, "writeRole") EXCEPT
                               !.rstack = SubSeq(@, 1, Len(@) - 1),
                               !.res.created = @ \cup {RolePath(next)}]]
                       /\ roleEvents' = roleEvents \cup
                            {[ev |-> "create", n |-> r.n,
                              raw |-> IF Len(r.rstack) = 1 THEN roleName ELSE next,
                              path |-> RolePath(next),
                              before |-> {}, created |-> {}]}
                       /\ UNCHANGED folders
    /\ UNCHANGED <<modalOpen, searchType, started, edits>>
    /\ UNCHANGED <<rateVars, linkVars>>

\* the write of a person note has completed: next entry of the creator loop
NextCreator(p) ==
    /\ imp[p].pc = "nextCreator"
    /\ imp' = [imp EXCEPT ![p] = StartCreator(@, @.ci + 1, vault)]
    /\ UNCHANGED <<vault, folders, modalOpen, searchType, started, edits, roleEvents>>
    /\ UNCHANGED <<rateVars, linkVars>>

\* the user edits the free text of a person note (no import in progress, and
\* an import still to come that reads the note)
UserEditBody(x, b) ==
    /\ edits < MaxEdits
    /\ started < MaxSeqImports
    /\ \A q \in Proc : ~InProgress(imp[q])
    /\ IsPersonNote(vault, x)
    /\ b # vault[x].body
    /\ vault' = [vault EXCEPT ![x].body = b]
    /\ edits' = edits + 1
    /\ UNCHANGED <<folders, imp, modalOpen, searchType, started, roleEvents>>
    /\ UNCHANGED <<rateVars, linkVars>>

\* an Import button is clicked, possibly while another import is in progress
StartImport(p, i) ==
    /\ started < MaxImports
    /\ onChooseItem(p, i)

EmptyVault == [x \in {} |-> 0]

\* the plugin is loaded on an empty vault
EngineInit ==
    /\ vault = EmptyVault
    /\ folders = {}
    /\ imp = [p \in Proc |-> IdleImport]
    /\ modalOpen = FALSE
    /\ searchType = "simple"
    /\ started = 0
    /\ edits = 0
    /\ roleEvents = {}

\* every client is new (lastRequestTime = 0) and the clock is past the first
\* interval, as Date.now() is
RateInit ==
    /\ clock = rateLimitDelay
    /\ lastRequestTime = [c \in Clients |-> 0]
    /\ calls = <<>>
    /\ dispatched = <<>>
    /\ fetcher = [pc |-> "idle", k |-> 0]
    /\ resultsContainer = [shown |-> 0, closed |-> FALSE, renderedClosed |-> FALSE]

FnInit ==
    /\ rawText = <<>>
    /\ zone = 0
    /\ rawCredits = <<>>
    /\ fnDone = "none"
    /\ dateOut = Null
    /\ creatorsOut = <<>>
    /\ headerOut = <<>>
    /\ tagOut = <<>>
    /\ rawIssue = Null
    /\ issueYaml = <<>>
    /\ apiCall = Null
    /\ apiOut = Null
    /\ table = roleHierarchy
    /\ inProgress = <<>>
    /\ roleNotes = {}

LinkInit ==
    /\ rawName = <<>>
    /\ site = "none"
    /\ linkText = <<>>
    /\ FnInit

Init == EngineInit /\ RateInit /\ LinkInit

Next ==
    \/ OpenModal
    \/ CloseModal
    \/ \E t \in {"simple", "creator"} : SetSearchType(t)
    \/ \E p \in Proc, i \in 1..NumIssues : StartImport(p, i)
    \/ \E p \in Proc, ok \in BOOLEAN : IssueResponse(p, ok)
    \/ \E p \in Proc : VolumeDispatch(p)
    \/ \E p \in Proc, ok \in BOOLEAN : VolumeResponse(p, ok)
    \/ \E p \in Proc : EnsureCreatorNotes(p)
    \/ \E p \in Proc, ok \in BOOLEAN : PersonResponse(p, ok)
    \/ \E p \in Proc : RoleCreated(p)
    \/ \E p \in Proc : NextCreator(p)

\* imports one after the other (an Import is chosen only when none is in
\* progress), with hand edits of person notes in between
onChooseItemSeq(i) ==
    /\ \A q \in Proc : ~InProgress(imp[q])
    /\ started < MaxSeqImports
    /\ onChooseItem(1, i)

NextSeq ==
    \/ OpenModal
    \/ CloseModal
    \/ \E t \in {"simple", "creator"} : SetSearchType(t)
    \/ \E i \in 1..NumIssues : onChooseItemSeq(i)
    \/ \E ok \in BOOLEAN : IssueResponse(1, ok)
    \/ VolumeDispatch(1)
    \/ \E ok \in BOOLEAN : VolumeResponse(1, ok)
    \/ EnsureCreatorNotes(1)
    \/ \E ok \in BOOLEAN : PersonResponse(1, ok)
    \/ RoleCreated(1)
    \/ NextCreator(1)
    \/ \E x \in DOMAIN vault, b \in Bodies : UserEditBody(x, b)

vars == <<engineVars, rateVars, linkVars>>

Spec == Init /\ [][Next]_vars

SpecSeq == Init /\ [][NextSeq]_vars

\* ------------------------------------------------------------------------
\* Imports into a vault that already holds a person note
\* ------------------------------------------------------------------------

LegacyPath == PersonPath(<<"J","B">>)

\* headers a note written by hand or by an earlier version may carry
LegacyHeaders ==
    { [EmptyFm EXCEPT !.entityType = t, !.name = nm, !.comicVineId = id,
                      !.comicVineUrl = u, !.birthDate = b, !.tags = tg,
                      !.deathDate = IF b = Null THEN Null
                                    ELSE [value |-> <<"2","0","1","9">>, year |-> 2019],
                      !.roles = IF full THEN <<Link(RoleBaseName(RolePenciler))>> ELSE <<>>,
                      !.credits = IF full
                                  THEN <<[role |-> Link(RoleBaseName(RolePenciler)),
                                          work |-> Link(IssueBaseName(2))]>>
                                  ELSE <<>>] :
        t \in {"", "ComicCreator", "Musician"},
        nm \in {<<>>, <<"Q">>},
        id \in {0, 2, 9},
        u \in {"", "my/url"},
        b \in {Null, [value |-> <<"1","9","4","9">>, year |-> 1949]},
        tg \in {<<>>, <<"x">>, <<"comic-creator", "person">>},
        full \in BOOLEAN }

InitMerge ==
    /\ \E fm \in LegacyHeaders :
          vault = (LegacyPath :> [kind |-> "person", hasFm |-> TRUE, fm |-> fm,
                                  body |-> <<"a">>])
    /\ folders = {peopleFolder}
    /\ imp = [p \in Proc |-> IdleImport]
    /\ modalOpen = FALSE
    /\ searchType = "simple"
    /\ started = 0
    /\ edits = 0
    /\ roleEvents = {}
    /\ RateInit
    /\ LinkInit

onChooseItemMerge(i) ==
    /\ \A q \in Proc : ~InProgress(imp[q])
    /\ started < MaxMergeImports
    /\ onChooseItem(1, i)

NextMerge ==
    \/ OpenModal
    \/ \E i \in 1..NumIssues : onChooseItemMerge(i)
    \/ \E ok \in BOOLEAN : IssueResponse(1, ok)
    \/ VolumeDispatch(1)
    \/ \E ok \in BOOLEAN : VolumeResponse(1, ok)
    \/ EnsureCreatorNotes(1)
    \/ \E ok \in BOOLEAN : PersonResponse(1, ok)
    \/ RoleCreated(1)
    \/ NextCreator(1)

SpecMerge == InitMerge /\ [][NextMerge]_vars

\* ------------------------------------------------------------------------
\* Overlapping imports of issue 1 and of the issue whose volume is on offer,
\* singly and as part of its volume
\* ------------------------------------------------------------------------

\* `${comicsFolder}/${sanitizedVolumeName}`
VolumeFolderPath(name) == comicsFolder \o "/" \o Str(sanitizeForFileName(name))

\* onChooseItem for the volume on offer (the volume of issue VolumeIssue, which
\* has that one issue): the modal closes unless the search type is 'creator';
\* createVolumeAndIssuesNotes makes the volume's folder and dispatches
\* getVolumeDetails
onChooseVolume(p) ==
    /\ started < MaxImports
    /\ modalOpen
    /\ ~InProgress(imp[p])
    /\ \A q \in Proc : q < p => InProgress(imp[q])
    /\ LET closing == searchType # "creator"
           volumeFolderPath == VolumeFolderPath(Catalog(VolumeIssue).volume)
           fresh == [IdleImport EXCEPT !.pc = "compilationFetch", !.issue = VolumeIssue,
                                       !.n = started + 1,
                                       !.log = <<Ev("fetchVolume", 0)>>,
                                       !.promise = "pending",
                                       !.folder = volumeFolderPath,
                                       !.signal = IF closing THEN "aborted" ELSE "live"]
       IN /\ modalOpen' = ~closing
          /\ searchType' = IF closing THEN "simple" ELSE searchType
          /\ imp' = [q \in Proc |->
                       IF q = p THEN fresh
                       ELSE IF closing THEN Abort(imp[q]) ELSE imp[q]]
          /\ folders' = folders \cup {volumeFolderPath}
    /\ started' = started + 1
    /\ UNCHANGED <<vault, edits, roleEvents>>
    /\ UNCHANGED <<rateVars, linkVars>>

\* the response of createVolumeAndIssuesNotes' getVolumeDetails: a failure
\* leaves the function (onChooseItem reports it); on success the compilation
\* note is created unless it exists, and the loop over volume.issues calls
\* createIssueNote(issueWithVolume, volumeFolderPath), which dispatches
\* getIssueDetails
CompilationResponse(p, ok) ==
    /\ imp[p].pc = "compilationFetch"
    /\ LET r == imp[p]
           volumeFilePath == r.folder \o "/"
                                \o Str(sanitizeForFileName(Catalog(r.issue).volume))
                                \o " (Compilation).md"
       IN IF ~ok
          THEN /\ imp' = [imp EXCEPT ![p] = [r EXCEPT !.pc = "done", !.outcome = "failed",
                                                      !.promise = "rejected"]]
               /\ UNCHANGED vault
          ELSE /\ vault' = IF volumeFilePath \in DOMAIN vault THEN vault
                           ELSE vault @@ (volumeFilePath :>
                                            [kind |-> "volume", name |-> Catalog(r.issue).volume])
               /\ imp' = [imp EXCEPT ![p] =
                            [r EXCEPT !.pc = "issueFetch",
                                      !.log = Append(@, Ev("fetchIssue", 0))]]
    /\ UNCHANGED <<folders, modalOpen, searchType, started, edits, roleEvents>>
    /\ UNCHANGED <<rateVars, linkVars>>

NextAll ==
    \/ OpenModal
    \/ CloseModal
    \/ \E t \in {"simple", "creator"} : SetSearchType(t)
    \/ \E p \in Proc, i \in {1, VolumeIssue} : StartImport(p, i)
    \/ \E p \in Proc : onChooseVolume(p)
    \/ \E p \in Proc, ok \in BOOLEAN : CompilationResponse(p, ok)
    \/ \E p \in Proc, ok \in BOOLEAN : IssueResponse(p, ok)
    \/ \E p \in Proc : VolumeDispatch(p)
    \/ \E p \in Proc, ok \in BOOLEAN : VolumeResponse(p, ok)
    \/ \E p \in Proc : EnsureCreatorNotes(p)
    \/ \E p \in Proc, ok \in BOOLEAN : PersonResponse(p, ok)
    \/ \E p \in Proc : RoleCreated(p)
    \/ \E p \in Proc : NextCreator(p)

SpecAll == Init /\ [][NextAll]_vars

\* ------------------------------------------------------------------------
\* The rate limiter: one modal's searches and one import's detail requests
\* ------------------------------------------------------------------------

\* rateLimitedFetch of client c up to its first await: the spacing timer is
\* set, or the request goes out at once
rateLimitedFetch(c, who) ==
    LET now == clock
        timeSinceLastRequest == now - lastRequestTime[c]
    IN IF timeSinceLastRequest < rateLimitDelay
       THEN /\ calls' = Append(calls, [client |-> c, who |-> who, st |-> "waiting",
                                       wake |-> now + (rateLimitDelay - timeSinceLastRequest)])
            /\ UNCHANGED <<lastRequestTime, dispatched>>
       ELSE /\ calls' = Append(calls, [client |-> c, who |-> who, st |-> "inflight",
                                       wake |-> now])
            /\ lastRequestTime' = [lastRequestTime EXCEPT ![c] = now]
            /\ dispatched' = Append(dispatched, [client |-> c, at |-> now])

\* time passes
Tick ==
    /\ clock < rateLimitDelay + MaxTicks
    /\ clock' = clock + 1
    /\ UNCHANGED <<lastRequestTime, calls, dispatched, fetcher>>
    /\ UNCHANGED resultsContainer
    /\ UNCHANGED <<engineVars, linkVars>>

\* the Search button of the open modal: performSearch empties the results,
\* aborts the controller of the earlier search (no request looks at the
\* signal), shows "Searching..." and calls simpleSearch or structuredSearch on
\* the modal's client, whatever earlier search is pending
performSearch ==
    /\ ~resultsContainer.closed
    /\ Cardinality({ i \in 1..Len(calls) : calls[i].who = "search" }) < MaxSearches
    /\ rateLimitedFetch("modal", "search")
    /\ resultsContainer' = [resultsContainer EXCEPT !.shown = 0]
    /\ UNCHANGED <<clock, fetcher>>
    /\ UNCHANGED <<engineVars, linkVars>>

\* the spacing timer of call i fires (not before it is due): lastRequestTime is
\* set and the request handed to requestUrl
TimerFires(i) ==
    /\ i \in DOMAIN calls
    /\ calls[i].st = "waiting"
    /\ clock >= calls[i].wake
    /\ calls' = [calls EXCEPT ![i].st = "inflight"]
    /\ lastRequestTime' = [lastRequestTime EXCEPT ![calls[i].client] = clock]
    /\ dispatched' = Append(dispatched, [client |-> calls[i].client, at |-> clock])
    /\ UNCHANGED <<clock, fetcher>>
    /\ UNCHANGED resultsContainer
    /\ UNCHANGED <<engineVars, linkVars>>

\* the response of a search request reaches performSearch: on success
\* `this.displayResults(results)`, on failure the container is emptied and a
\* Notice shown
SearchResponse(i, ok) ==
    /\ i \in DOMAIN calls
    /\ calls[i].st = "inflight"
    /\ calls[i].who = "search"
    /\ calls' = [calls EXCEPT ![i].st = "done"]
    /\ resultsContainer' =
          [resultsContainer EXCEPT !.shown = IF ok THEN i ELSE 0,
                                   !.renderedClosed = @ \/ (ok /\ resultsContainer.closed)]
    /\ UNCHANGED <<clock, lastRequestTime, dispatched, fetcher>>
    /\ UNCHANGED <<engineVars, linkVars>>

\* ComicSearchModal.onClose: the controller is aborted (no request looks at
\* the signal) and the content emptied
onClose ==
    /\ ~resultsContainer.closed
    /\ resultsContainer' = [resultsContainer EXCEPT !.shown = 0, !.closed = TRUE]
    /\ UNCHANGED <<clock, lastRequestTime, calls, dispatched, fetcher>>
    /\ UNCHANGED <<engineVars, linkVars>>

\* createIssueNote: a new client, getIssueDetails
getIssueDetails ==
    /\ fetcher.pc = "idle"
    /\ rateLimitedFetch("issue", "import")
    /\ fetcher' = [fetcher EXCEPT !.pc = "issue"]
    /\ UNCHANGED clock
    /\ UNCHANGED resultsContainer
    /\ UNCHANGED <<engineVars, linkVars>>

\* the issue details arrive; getVolumeDetails on the same client
getVolumeDetails(i) ==
    /\ i \in DOMAIN calls
    /\ fetcher.pc = "issue"
    /\ calls[i].st = "inflight"
    /\ calls[i].who = "import"
    /\ LET now == clock
           timeSinceLastRequest == now - lastRequestTime["issue"]
           call == IF timeSinceLastRequest < rateLimitDelay
                   THEN [client |-> "issue", who |-> "import", st |-> "waiting",
                         wake |-> now + (rateLimitDelay - timeSinceLastRequest)]
                   ELSE [client |-> "issue", who |-> "import", st |-> "inflight",
                         wake |-> now]
       IN /\ calls' = Append([calls EXCEPT ![i].st = "done"], call)
          /\ IF call.st = "inflight"
             THEN /\ lastRequestTime' = [lastRequestTime EXCEPT !["issue"] = now]
                  /\ dispatched' = Append(dispatched, [client |-> "issue", at |-> now])
             ELSE UNCHANGED <<lastRequestTime, dispatched>>
    /\ fetcher' = [fetcher EXCEPT !.pc = "volume"]
    /\ UNCHANGED clock
    /\ UNCHANGED resultsContainer
    /\ UNCHANGED <<engineVars, linkVars>>

\* the volume details arrive: the issue note is written and
\* ensureCreatorNotesExist makes its own client
VolumeDetailsArrive(i) ==
    /\ i \in DOMAIN calls
    /\ fetcher.pc = "volume"
    /\ calls[i].st = "inflight"
    /\ calls[i].who = "import"
    /\ calls' = [calls EXCEPT ![i].st = "done"]
    /\ fetcher' = [pc |-> "creator", k |-> 1]
    /\ UNCHANGED <<clock, lastRequestTime, dispatched>>
    /\ UNCHANGED resultsContainer
    /\ UNCHANGED <<engineVars, linkVars>>

\* the creator loop reaches getPersonDetails for creator k
getPersonDetails ==
    /\ fetcher.pc = "creator"
    /\ rateLimitedFetch("creators", "import")
    /\ fetcher' = [fetcher EXCEPT !.pc = "person"]
    /\ UNCHANGED clock
    /\ UNCHANGED resultsContainer
    /\ UNCHANGED <<engineVars, linkVars>>

\* the person details arrive (or the request fails): the loop goes on
PersonDetailsArrive(i) ==
    /\ i \in DOMAIN calls
    /\ fetcher.pc = "person"
    /\ calls[i].st = "inflight"
    /\ calls[i].who = "import"
    /\ calls' = [calls EXCEPT ![i].st = "done"]
    /\ fetcher' = IF fetcher.k < NumCreators
                  THEN [pc |-> "creator", k |-> fetcher.k + 1]
                  ELSE [pc |-> "done", k |-> fetcher.k]
    /\ UNCHANGED <<clock, lastRequestTime, dispatched>>
    /\ UNCHANGED resultsContainer
    /\ UNCHANGED <<engineVars, linkVars>>

NextRate ==
    \/ Tick
    \/ performSearch
    \/ \E i \in 1..MaxCalls : TimerFires(i)
    \/ \E i \in 1..MaxCalls, ok \in BOOLEAN : SearchResponse(i, ok)
    \/ onClose
    \/ getIssueDetails
    \/ \E i \in 1..MaxCalls : getVolumeDetails(i)
    \/ \E i \in 1..MaxCalls : VolumeDetailsArrive(i)
    \/ getPersonDetails
    \/ \E i \in 1..MaxCalls : PersonDetailsArrive(i)

SpecRate == Init /\ [][NextRate]_vars

\* ------------------------------------------------------------------------
\* The cross-reference assembly, one link at a time
\* ------------------------------------------------------------------------

NameChars == {"a", " ", "[", "]", "|", "#", "^"}

Names == SeqsUpTo(NameChars, MaxNameLen)

Unknown == <<"U","n","k","n","o","w","n">>

UnknownPublisher == Unknown \o <<" ","P","u","b","l","i","s","h","e","r">>

\* one place of the code turns the name into a link
WriteLink(where, text) ==
    /\ site' = where
    /\ linkText' = text
    /\ UNCHANGED rawName
    /\ UNCHANGED <<engineVars, rateVars, fnVars>>

\* volume: `[[${clean(volume.name)} (Compilation).md|${clean(volume.name)}]]`
generateIssueYAML_volume ==
    /\ site = "none"
    /\ WriteLink("issue.volume",
                 Link(cleanForWikilink(rawName)
                      \o <<" ","(","C","o","m","p","i","l","a","t","i","o","n",")",".","m","d","|">>
                      \o cleanForWikilink(rawName)))

\* publisher: processIssueData's volume.publisher?.name || 'Unknown Publisher'
generateIssueYAML_publisher ==
    /\ site = "none"
    /\ WriteLink("issue.publisher",
                 Link(cleanForWikilink(IF rawName = <<>> THEN UnknownPublisher ELSE rawName)))

\* the creator lists
generateIssueYAML_creators ==
    /\ site = "none"
    /\ WriteLink("issue.creator", Link(cleanForWikilink(rawName)))

generateIssueYAML_features ==
    /\ site = "none"
    /\ WriteLink("issue.character", Link(cleanForWikilink(rawName)))

generateIssueYAML_partOfStoryArc ==
    /\ site = "none"
    /\ WriteLink("issue.storyArc", Link(cleanForWikilink(rawName)))

\* publisher: `[[${volume.publisher?.name || "Unknown"}]]`
generateVolumeNoteContent_publisher ==
    /\ site = "none"
    /\ WriteLink("volume.publisher", Link(IF rawName = <<>> THEN Unknown ELSE rawName))

\* roleLink of a person note, for one role of the credit (trimmed, not empty)
ensureCreatorNotesExist_roleLink ==
    /\ site = "none"
    /\ Trim(rawName) # <<>>
    /\ WriteLink("person.role", Link(RoleBaseName(capitalizedRole(Trim(rawName)))))

\* issueLink of a person note, for issue 1 of the volume of that name
ensureCreatorNotesExist_issueLink ==
    /\ site = "none"
    /\ WriteLink("person.work", Link(generateFileName(rawName, <<"1">>)))

InitLinks ==
    /\ EngineInit
    /\ RateInit
    /\ rawName \in Names
    /\ site = "none"
    /\ linkText = <<>>
    /\ FnInit

NextLinks ==
    \/ generateIssueYAML_volume
    \/ generateIssueYAML_publisher
    \/ generateIssueYAML_creators
    \/ generateIssueYAML_features
    \/ generateIssueYAML_partOfStoryArc
    \/ generateVolumeNoteContent_publisher
    \/ ensureCreatorNotesExist_roleLink
    \/ ensureCreatorNotesExist_issueLink

SpecLinks == InitLinks /\ [][NextLinks]_vars

\* ------------------------------------------------------------------------
\* The field normalizer: dates and roles
\* ------------------------------------------------------------------------

\* c.toLowerCase() for one character
ToLowerChar(c) ==
    IF \E i \in 1..26 : UpperLetters[i] = c
    THEN LowerLetters[CHOOSE i \in 1..26 : UpperLetters[i] = c]
    ELSE c

ToLower(s) == [i \in 1..Len(s) |-> ToLowerChar(s[i])]

\* list.join(sep)
RECURSIVE Join(_, _)
Join(list, sep) ==
    IF list = <<>> THEN <<>>
    ELSE IF Len(list) = 1 THEN list[1]
    ELSE list[1] \o sep \o Join(Tail(list), sep)

\* w.charAt(0).toUpperCase() + w.slice(1)
CapitalizeWord(w) == IF w = <<>> THEN <<>> ELSE <<ToUpperChar(Head(w))>> \o Tail(w)

\* a variant that drops one leading blank instead of trimming
canonicalRoleOneBlank(r) ==
    LET words == Split(IF r # <<>> /\ Head(r) = " " THEN Tail(r) ELSE r, " ")
    IN Join([k \in 1..Len(words) |-> CapitalizeWord(words[k])], <<" ">>)

\* r.trim().split(' ').map(capitalize).join(' ')
canonicalRole(r) ==
    LET words == Split(Trim(r), " ")
    IN Join([k \in 1..Len(words) |-> CapitalizeWord(words[k])], <<" ">>)

\* credit.role.split(',').map(...), the empty results dropped as the
\* forEach that follows drops them
canonicalizeRole(role) ==
    LET segs == Split(role, ",")
    IN SelectSeq([k \in 1..Len(segs) |-> canonicalRole(segs[k])], LAMBDA x : x # <<>>)

\* creators[role].push(name) unless included; a role not seen yet gets a list
AddCreator(creators, role, name) ==
    IF \E k \in 1..Len(creators) : creators[k].role = role
    THEN [k \in 1..Len(creators) |->
            IF creators[k].role = role /\ ~Includes(creators[k].names, name)
            THEN [creators[k] EXCEPT !.names = Append(@, name)]
            ELSE creators[k]]
    ELSE Append(creators, [role |-> role, names |-> <<name>>])

RECURSIVE AddRoles(_, _, _)
AddRoles(creators, roles, name) ==
    IF roles = <<>> THEN creators
    ELSE AddRoles(AddCreator(creators, Head(roles), name), Tail(roles), name)

\* the creators record of processIssueData
RECURSIVE processIssueData(_)
processIssueData(personCredits) ==
    IF personCredits = <<>> THEN <<>>
    ELSE LET credit == personCredits[Len(personCredits)]
         IN AddRoles(processIssueData(SubSeq(personCredits, 1, Len(personCredits) - 1)),
                     canonicalizeRole(credit.role), credit.name)

\* mapping[roleLower] || 'contributedTo': mapping is an object literal, so a
\* name of Object.prototype is found in it as well; the value found for
\* "constructor" is the function Object, which as a property key is its
\* source text
mapRoleToOntologyKey(role) ==
    LET roleLower == Trim(ToLower(role))
    IN
         CASE roleLower = <<"w","r","i","t","e","r">> -> <<"w","r","i","t","t","e","n","B","y">>
           [] roleLower = <<"s","c","r","i","p","t">> -> <<"w","r","i","t","t","e","n","B","y">>
           [] roleLower = <<"e","d","i","t","o","r">> -> <<"e","d","i","t","e","d","B","y">>
           [] roleLower = <<"p","e","n","c","i","l","e","r">> -> <<"p","e","n","c","i","l","e","r">>
           [] roleLower = <<"p","e","n","c","i","l","l","e","r">> -> <<"p","e","n","c","i","l","e","r">>
           [] roleLower = <<"i","n","k","e","r">> -> <<"i","n","k","e","r">>
           [] roleLower = <<"c","o","l","o","r","i","s","t">> -> <<"c","o","l","o","r","i","s","t">>
           [] roleLower = <<"l","e","t","t","e","r","e","r">> -> <<"l","e","t","t","e","r","e","r">>
           [] roleLower = <<"c","o","v","e","r"," ","a","r","t","i","s","t">> -> <<"c","o","v","e","r","A","r","t","i","s","t">>
           [] roleLower = <<"c","o","v","e","r">> -> <<"c","o","v","e","r","A","r","t","i","s","t">>
           [] roleLower = <<"a","r","t","i","s","t">> -> <<"c","o","n","t","r","i","b","u","t","e","d","T","o">>
           [] roleLower = <<"c","r","e","a","t","o","r">> -> <<"c","r","e","a","t","o","r">>
           [] roleLower = <<"c","o","n","s","t","r","u","c","t","o","r">> ->
                <<"f","u","n","c","t","i","o","n"," ","O","b","j","e","c","t","(",")"," ","{"," ","[","n","a","t","i","v","e"," ","c","o","d","e","]"," ","}">>
           [] OTHER -> <<"c","o","n","t","r","i","b","u","t","e","d","T","o">>

\* ontologyCreators[ontologyKey].add(`[[${clean(person)}]]`) for every person
AddPeople(onto, key, names) ==
    LET links == [k \in 1..Len(names) |-> Link(cleanForWikilink(names[k]))]
    IN IF \E k \in 1..Len(onto) : onto[k].key = key
       THEN [k \in 1..Len(onto) |->
               IF onto[k].key = key
               THEN [onto[k] EXCEPT !.people = Dedup(@ \o links)]
               ELSE onto[k]]
       ELSE Append(onto, [key |-> key, people |-> Dedup(links)])

RECURSIVE ontologyCreators(_)
ontologyCreators(creators) ==
    IF creators = <<>> THEN <<>>
    ELSE LET c == creators[Len(creators)]
         IN AddPeople(ontologyCreators(SubSeq(creators, 1, Len(creators) - 1)),
                      mapRoleToOntologyKey(c.role), c.names)

\* Object.keys(ontologyCreators).sort().forEach(key => frontmatter[key] = ...)
RECURSIVE SortByKey(_)
SortByKey(onto) ==
    IF onto = <<>> THEN <<>>
    ELSE LET rest == SortByKey(Tail(onto))
             before == SelectSeq(rest, LAMBDA e : StrLess(e.key, Head(onto).key))
             after == SelectSeq(rest, LAMBDA e : ~StrLess(e.key, Head(onto).key))
         IN before \o <<Head(onto)>> \o after

\* s.replace(/\s+/g, '-'): every run of white space becomes one hyphen
RECURSIVE SpacesToHyphen(_)
SpacesToHyphen(s) ==
    IF s = <<>> THEN <<>>
    ELSE IF IsSpace(Head(s)) THEN <<"-">> \o SpacesToHyphen(TrimStart(s))
         ELSE <<Head(s)>> \o SpacesToHyphen(Tail(s))

\* text.replace(/[^a-zA-Z0-9-]/g, '').replace(/\s+/g, '-').toLowerCase()
sanitizeForTag(text) ==
    ToLower(SpacesToHyphen(SelectSeq(text, LAMBDA c :
        c \in SeqToSet(LowerLetters) \cup SeqToSet(UpperLetters)
                  \cup SeqToSet(Digits) \cup {"-"})))

\* the keys of generateIssueYAML's frontmatter literal whose values depend on
\* the issue (lines 677-699), in insertion order, each with the kind of its
\* value; the creator keys that follow are ontologyCreators'
generateIssueYAML(issue, coverLink, tz) ==
    << [key |-> "aliases", t |-> "list",
        v |-> IF issue.name # <<>> THEN <<issue.name>> ELSE <<>>],
       [key |-> "coverDate", t |-> "date", v |-> parseComicDate(issue.cover_date, tz)],
       [key |-> "storeDate", t |-> "date", v |-> parseComicDate(issue.store_date, tz)],
       [key |-> "coverUrl", t |-> "text", v |-> coverLink] >>
    \o (IF issue.deck # <<>>
        THEN <<[key |-> "description", t |-> "text", v |-> issue.deck]>>
        ELSE <<>>)
    \o (IF issue.enableReadingTracker
        THEN << [key |-> "pages", t |-> "number", v |-> defaultPageCount],
                [key |-> "currentPage", t |-> "number", v |-> 0],
                [key |-> "percentComplete", t |-> "number", v |-> 0],
                [key |-> "lastRead", t |-> "date", v |-> Null] >>
        ELSE <<>>)

\* A method of ComicVineClient seen from its caller: simpleSearch, the three
\* branches of structuredSearch and the detail getters throw
\* `ComicVine API error: ...` when the envelope's error is not 'OK' and return
\* the results otherwise; the first request of the 'issue' and 'creator'
\* branches instead shows a "not found" Notice and returns [] when the error
\* is not 'OK' or there are no results
ComicVineClient(op, first, second) ==
    IF op \in {"issue", "creator"}
    THEN IF first.error # "OK" \/ first.n = 0
         THEN [kind |-> "returns", n |-> 0, notice |-> "not found", requests |-> 1]
         ELSE IF second.error # "OK"
         THEN [kind |-> "throws", message |-> "ComicVine API error", requests |-> 2]
         ELSE [kind |-> "returns", n |-> second.n, notice |-> "", requests |-> 2]
    ELSE IF first.error # "OK"
         THEN [kind |-> "throws", message |-> "ComicVine API error", requests |-> 1]
         ELSE [kind |-> "returns", n |-> first.n, notice |-> "", requests |-> 1]

\* date strings: year and month, year, full date, a year below 100, a month
\* that does not exist, no date at all, the API's date-and-time form
DateTexts ==
    { <<"1","9","8","6","-","0","9">>, <<"1","9","8","6">>, <<"1","9","8","6","-","0","9","-","1","5">>, <<"0","0","5","0","-","0","3","-","0","4">>, <<"1","9","8","6","-","1","3">>, <<"n","/","a">>,
      <<"1","9","5","0","-","0","6","-","1","9"," ","0","0",":","0","0",":","0","0">> }

Zones == {-5, 0, 9}

\* tag texts: every text of at most MaxTagLen characters over a small
\* alphabet, and names as the API gives them
TagTexts ==
    SeqsUpTo({"a", "B", "1", " ", "-", "!"}, MaxTagLen)
    \cup { <<"M","a","r","v","e","l"," ","C","o","m","i","c","s">>,
           <<"X","-","M","e","n"," "," ","(","1","9","9","1",")">> }

\* role strings: every text of at most MaxRoleLen characters over a small
\* alphabet, and roles as the API names them
RoleTexts ==
    SeqsUpTo({"a", "B", " ", ","}, MaxRoleLen)
    \cup { <<"w","r","i","t","e","r">>, <<"p","e","n","c","i","l","e","r",","," ","i","n","k","e","r">>, <<"C","o","v","e","r"," ","A","r","t","i","s","t">>,
           <<"c","o","v","e","r">>, <<"c","o","l","o","r","i","s","t">>,
           <<"c","o","n","s","t","r","u","c","t","o","r">>, <<"o","t","h","e","r">>,
           <<"W","R","I","T","E","R">> }

ExampleCredits ==
    << [id |-> 1, name |-> <<"C","h","r","i","s"," ","C","l","a","r","e","m","o","n","t">>, role |-> RoleWriter],
       [id |-> 2, name |-> <<"J","o","h","n"," ","B","y","r","n","e">>, role |-> RolePencilerInker] >>

InitFns ==
    /\ EngineInit
    /\ RateInit
    /\ rawName = <<>>
    /\ site = "none"
    /\ linkText = <<>>
    /\ fnDone = "none"
    /\ dateOut = Null
    /\ creatorsOut = <<>>
    /\ headerOut = <<>>
    /\ tagOut = <<>>
    /\ issueYaml = <<>>
    /\ apiOut = Null
    /\ \/ /\ rawText \in DateTexts /\ zone \in Zones /\ rawCredits = <<>>
          /\ rawIssue = Null /\ apiCall = Null
          /\ table = roleHierarchy /\ inProgress = <<>> /\ roleNotes = {}
       \/ /\ rawText \in RoleTexts
          /\ zone = 0
          /\ rawCredits = <<[id |-> 1, name |-> <<"N">>, role |-> rawText]>>
          /\ rawIssue = Null /\ apiCall = Null
          /\ table = roleHierarchy /\ inProgress = <<>> /\ roleNotes = {}
       \/ /\ rawText = <<>> /\ zone = 0 /\ rawCredits = ExampleCredits
          /\ rawIssue = Null /\ apiCall = Null
          /\ table = roleHierarchy /\ inProgress = <<>> /\ roleNotes = {}
       \/ /\ rawText \in TagTexts /\ zone = 0 /\ rawCredits = <<>>
          /\ rawIssue = Null /\ apiCall = Null
          /\ table = roleHierarchy /\ inProgress = <<>> /\ roleNotes = {}
       \/ /\ rawText = <<>> /\ zone = 0 /\ rawCredits = <<>>
          /\ rawIssue \in [name : {<<>>, <<"N">>},
                           cover_date : {<<>>, <<"1","9","8","6","-","0","9">>},
                           store_date : {<<>>, <<"1","9","8","6","-","0","9","-","1","5">>},
                           image : {<<>>, <<"h","t","t","p",":","/","/","i">>},
                           deck : {<<>>, <<"d">>},
                           enableReadingTracker : BOOLEAN]
          /\ apiCall = Null
          /\ table = roleHierarchy /\ inProgress = <<>> /\ roleNotes = {}
       \/ \* a client operation; error and n are the envelope's error field and
          \* the length of its results, second the response of the second request
          \* of a two-step search
          /\ rawText = <<>> /\ zone = 0 /\ rawCredits = <<>> /\ rawIssue = Null
          /\ apiCall \in [op : {"simpleSearch", "volume", "issue", "creator",
                                "getVolumeDetails", "getIssueDetails", "getPersonDetails"},
                          first : [error : {"OK", "Invalid API Key"}, n : 0..MaxResults],
                          second : [error : {"OK", "Invalid API Key"}, n : 0..MaxResults]]
          /\ table = roleHierarchy /\ inProgress = <<>> /\ roleNotes = {}
       \/ \* getOrCreateRoleNote(rawText) has been called; the parent table is
          \* the code's, the code's with a grandparent, or one with a cycle
          /\ rawText \in { RoleWriter, RolePenciler, <<"I","n","k","e","r">>,
                           <<"S","c","r","i","p","t">>, <<"a","r","t","i","s","t">> }
          /\ zone = 0 /\ rawCredits = <<>> /\ rawIssue = Null /\ apiCall = Null
          /\ table \in { roleHierarchy,
                         roleHierarchy \cup {<< <<"A","r","t","i","s","t">>, <<"C","r","e","a","t","o","r">> >>},
                         roleHierarchy \cup {<< <<"A","r","t","i","s","t">>, <<"P","e","n","c","i","l","e","r">> >>},
                         roleHierarchy \cup {<< <<"W","r","i","t","e","r">>, <<"W","r","i","t","e","r">> >>} }
          /\ inProgress = <<capitalizedRole(rawText)>>
          /\ roleNotes \in SUBSET { <<"A","r","t","i","s","t">>, <<"W","r","i","t","e","r">>,
                                    <<"I","n","k","e","r">> }

\* coverDate: this.parseComicDate(issue.cover_date)
ParseCoverDate ==
    /\ fnDone = "none"
    /\ rawText \in DateTexts
    /\ dateOut' = parseComicDate(rawText, zone)
    /\ fnDone' = "coverDate"
    /\ UNCHANGED <<rawText, zone, rawCredits, creatorsOut, headerOut>>
    /\ UNCHANGED <<tagOut, rawIssue, issueYaml>>
    /\ UNCHANGED <<apiCall, apiOut, table, inProgress, roleNotes>>
    /\ UNCHANGED <<engineVars, rateVars, rawName, site, linkText>>

\* const birthInfo = this.parseCreatorDate(personDetails.birth)
ParseBirthDate ==
    /\ fnDone = "none"
    /\ rawText \in DateTexts
    /\ dateOut' = parseCreatorDate(rawText, zone)
    /\ fnDone' = "birthDate"
    /\ UNCHANGED <<rawText, zone, rawCredits, creatorsOut, headerOut>>
    /\ UNCHANGED <<tagOut, rawIssue, issueYaml>>
    /\ UNCHANGED <<apiCall, apiOut, table, inProgress, roleNotes>>
    /\ UNCHANGED <<engineVars, rateVars, rawName, site, linkText>>

\* const data = this.processIssueData(detailedIssue, volume, localCoverPath)
ProcessIssueData ==
    /\ fnDone = "none"
    /\ rawCredits # <<>>
    /\ creatorsOut' = processIssueData(rawCredits)
    /\ fnDone' = "creators"
    /\ UNCHANGED <<rawText, zone, rawCredits, dateOut, headerOut>>
    /\ UNCHANGED <<tagOut, rawIssue, issueYaml>>
    /\ UNCHANGED <<apiCall, apiOut, table, inProgress, roleNotes>>
    /\ UNCHANGED <<engineVars, rateVars, rawName, site, linkText>>

\* generateIssueYAML, lines 702-710: the creators under their ontology keys
GenerateIssueYAML ==
    /\ fnDone = "creators"
    /\ headerOut' = SortByKey(ontologyCreators(creatorsOut))
    /\ fnDone' = "header"
    /\ UNCHANGED <<rawText, zone, rawCredits, dateOut, creatorsOut>>
    /\ UNCHANGED <<tagOut, rawIssue, issueYaml>>
    /\ UNCHANGED <<apiCall, apiOut, table, inProgress, roleNotes>>
    /\ UNCHANGED <<engineVars, rateVars, rawName, site, linkText>>

\* tags: ['comic-issue', this.sanitizeForTag(publisher), this.sanitizeForTag(volume.name)]
SanitizeForTag ==
    /\ fnDone = "none"
    /\ rawText \in TagTexts
    /\ rawCredits = <<>> /\ rawIssue = Null /\ apiCall = Null
    /\ tagOut' = sanitizeForTag(rawText)
    /\ fnDone' = "tag"
    /\ UNCHANGED <<rawText, zone, rawCredits, dateOut, creatorsOut, headerOut, rawIssue, issueYaml>>
    /\ UNCHANGED <<apiCall, apiOut, table, inProgress, roleNotes>>
    /\ UNCHANGED <<engineVars, rateVars, rawName, site, linkText>>

\* generateIssueNoteContent: with no downloaded cover coverLink is
\* `coverUrl || ""`, coverUrl being issue.image?.super_url; then
\* this.generateIssueYAML(data, coverLink) and stringifyYaml(frontmatter)
GenerateIssueNoteContent ==
    /\ fnDone = "none"
    /\ rawIssue # Null
    /\ issueYaml' = generateIssueYAML(rawIssue, rawIssue.image, zone)
    /\ fnDone' = "issueYaml"
    /\ UNCHANGED <<rawText, zone, rawCredits, dateOut, creatorsOut, headerOut, tagOut, rawIssue>>
    /\ UNCHANGED <<apiCall, apiOut, table, inProgress, roleNotes>>
    /\ UNCHANGED <<engineVars, rateVars, rawName, site, linkText>>

\* the operation of apiCall runs to its end: every client method awaits
\* rateLimitedFetch and then looks at the envelope
ClientOperation ==
    /\ fnDone = "none"
    /\ apiCall # Null
    /\ apiOut' = ComicVineClient(apiCall.op, apiCall.first, apiCall.second)
    /\ fnDone' = "client"
    /\ UNCHANGED <<rawText, zone, rawCredits, dateOut, creatorsOut, headerOut>>
    /\ UNCHANGED <<tagOut, rawIssue, issueYaml, apiCall, table, inProgress, roleNotes>>
    /\ UNCHANGED <<engineVars, rateVars, rawName, site, linkText>>

\* the innermost getOrCreateRoleNote call finds no note for its role and a
\* parent in the table: `await this.getOrCreateRoleNote(parentRoleName)`
getOrCreateRoleNote ==
    /\ fnDone = "none"
    /\ inProgress # <<>>
    /\ Len(inProgress) < MaxDepth
    /\ LET role == inProgress[Len(inProgress)]
       IN /\ role \notin roleNotes
          /\ \E e \in table : e[1] = role
          /\ inProgress' = Append(inProgress, (CHOOSE e \in table : e[1] = role)[2])
    /\ UNCHANGED <<rawText, zone, rawCredits, fnDone, dateOut, creatorsOut, headerOut>>
    /\ UNCHANGED <<tagOut, rawIssue, issueYaml, apiCall, apiOut, table, roleNotes>>
    /\ UNCHANGED <<engineVars, rateVars, rawName, site, linkText>>

\* the innermost call returns its note: the one it found, or the one it
\* creates when its role has no parent or the call for the parent has returned
RoleNoteReturned ==
    /\ fnDone \in {"none", "returning"}
    /\ inProgress # <<>>
    /\ LET role == inProgress[Len(inProgress)]
       IN /\ \/ fnDone = "returning"
             \/ role \in roleNotes
             \/ ~\E e \in table : e[1] = role
          /\ roleNotes' = roleNotes \cup {role}
    /\ inProgress' = SubSeq(inProgress, 1, Len(inProgress) - 1)
    /\ fnDone' = IF Len(inProgress) = 1 THEN "resolved" ELSE "returning"
    /\ UNCHANGED <<rawText, zone, rawCredits, dateOut, creatorsOut, headerOut>>
    /\ UNCHANGED <<tagOut, rawIssue, issueYaml, apiCall, apiOut, table>>
    /\ UNCHANGED <<engineVars, rateVars, rawName, site, linkText>>

NextFns ==
    \/ ParseCoverDate
    \/ ParseBirthDate
    \/ ProcessIssueData
    \/ GenerateIssueYAML
    \/ SanitizeForTag
    \/ GenerateIssueNoteContent
    \/ ClientOperation
    \/ getOrCreateRoleNote
    \/ RoleNoteReturned

SpecFns == InitFns /\ [][NextFns]_vars

\* ------------------------------------------------------------------------
\* Properties
\* ------------------------------------------------------------------------

PersonNotes == { x \in DOMAIN vault : vault[x].kind = "person" }

NoDuplicatePerson ==
    \A x, y \in PersonNotes :
        (x # y /\ vault[x].hasFm /\ vault[y].hasFm /\ vault[x].fm.comicVineId # 0)
            => vault[x].fm.comicVineId # vault[y].fm.comicVineId

NoDuplicateCredits ==
    \A x \in PersonNotes :
        \A i, j \in 1..Len(vault[x].fm.credits) :
            i # j => vault[x].fm.credits[i] # vault[x].fm.credits[j]

\* C1: after any sequence of issue imports (one at a time, the same issue
\* possibly imported again) no two person notes carry the same external id, and
\* no person note's credits list holds the same (role, work) pair twice.
C1_NoDuplicatePersonOrCredit == NoDuplicatePerson /\ NoDuplicateCredits

\* a second import has updated the note of a person credited in two issues,
\* under two spellings of the name
C1_Witness ==
    /\ started = 2
    /\ \A p \in Proc : ~InProgress(imp[p])
    /\ \E x \in PersonNotes :
          /\ vault[x].fm.comicVineId = 2
          /\ \E i, j \in 1..Len(vault[x].fm.credits) :
                vault[x].fm.credits[i].work # vault[x].fm.credits[j].work

PencilerNames ==
    { <<"P","e","n","c","i","l","e","r">>, <<"p","e","n","c","i","l","e","r">> }

PencilerPath == "Comics/Concepts/Penciler (Role).md"

ArtistPath == "Comics/Concepts/Artist (Role).md"

ArtistLink == <<"[","[","A","r","t","i","s","t"," ","(","R","o","l","e",")","]","]">>

\* C2: a resolution of "Penciler" that starts with no role note in the store
\* creates exactly the Penciler and the Artist role notes, the Penciler header
\* carrying subConceptOf: [[Artist (Role)]]; a resolution that finds the
\* Penciler note creates nothing; both return the Penciler note.
C2_PencilerCreatesItselfAndArtist ==
    /\ \A e \in roleEvents :
          (e.ev = "resolve" /\ e.raw \in PencilerNames) =>
              /\ e.path = PencilerPath
              /\ e.before = {} => e.created = {PencilerPath, ArtistPath}
              /\ PencilerPath \in e.before => e.created = {}
    /\ PencilerPath \in DOMAIN vault =>
          /\ ArtistPath \in DOMAIN vault
          /\ vault[PencilerPath].kind = "role"
          /\ vault[PencilerPath].subConceptOf = ArtistLink

\* Penciler has been resolved from an empty role store and then once more
C2_Witness ==
    /\ \E e \in roleEvents :
          e.ev = "resolve" /\ e.raw \in PencilerNames /\ e.before = {}
    /\ \E e \in roleEvents :
          e.ev = "resolve" /\ e.raw \in PencilerNames /\ PencilerPath \in e.before

\* the canonical name of a role: trimmed, first letter capitalized
CanonicalRoleName(raw) ==
    LET t == Trim(raw)
    IN IF t = <<>> THEN <<>> ELSE <<ToUpperChar(Head(t))>> \o Tail(t)

\* C3: all role resolutions and role note creations for one canonical role name
\* concern one document, and no role note is created twice; so Penciler and
\* Inker share one Artist note, created once.
C3_OneRoleNotePerName ==
    LET named == { <<CanonicalRoleName(e.raw), e.path>> : e \in roleEvents }
        creations == { e \in roleEvents : e.ev = "create" }
    IN /\ \A a, b \in named : a[1] = b[1] => a[2] = b[2]
       /\ Cardinality({ e.path : e \in creations }) = Cardinality(creations)

\* Penciler and Inker have both been resolved and Artist was created once
C3_Witness ==
    /\ \E e \in roleEvents : e.ev = "resolve" /\ e.raw \in PencilerNames
    /\ \E e \in roleEvents : e.ev = "resolve" /\ e.raw = <<"i","n","k","e","r">>
    /\ Cardinality({ e \in roleEvents : e.ev = "create" /\ e.path = ArtistPath }) = 1

\* C4: an update of an existing person note leaves its free text as it was,
\* character for character: in every step that is not a hand edit, every
\* person note keeps its body.
C4_BodyPreservedVerbatim ==
    [][edits' = edits =>
         \A x \in PersonNotes : vault'[x].body = vault[x].body]_vars

\* C8: an import whose modal is cancelled while its volume request waits out
\* the spacing delay writes no document afterwards.
C8_NoWriteAfterCancel ==
    \A p \in Proc : imp[p].cancelledInSpacing => ~imp[p].wroteAfterCancel

IsFetch(x) == x.e \in {"fetchIssue", "fetchVolume", "fetchPerson"}

IsWrite(x) == x.e \in {"writeIssue", "writeRole", "writePerson"}

MayFollow(a, b) ==
    CASE a.e = "fetchIssue" -> b.e = "fetchVolume"
      [] a.e = "fetchVolume" -> b.e = "writeIssue"
      [] a.e = "writeIssue" -> b = Ev("fetchPerson", 1) \/ b.e = "open"
      [] a.e = "fetchPerson" ->
           \/ b.k = a.k /\ b.e \in {"writeRole", "writePerson"}
           \/ b = Ev("fetchPerson", a.k + 1)
           \/ b.e = "open"
      [] a.e = "writeRole" -> b.k = a.k /\ b.e \in {"writeRole", "writePerson"}
      [] a.e = "writePerson" -> b = Ev("fetchPerson", a.k + 1) \/ b.e = "open"
      [] OTHER -> FALSE

PersonTarget(r) ==
    IF r.personFile # "" THEN r.personFile ELSE PersonPath(r.creators[r.ci].name)

InPersonUpdate(r) == r.pc \in {"personFetch", "roleCreate", "nextCreator"}

\* C10: no two imports are at the same time between the read and the completed
\* write of one person note, and no role note an import has found missing and
\* is about to create is written by another import in between.
C10_NoOverlappingWrites ==
    /\ \A p, q \in Proc :
          (p # q /\ InPersonUpdate(imp[p]) /\ InPersonUpdate(imp[q]))
              => PersonTarget(imp[p]) # PersonTarget(imp[q])
    /\ \A p \in Proc :
          imp[p].pc = "roleCreate" =>
              \A i \in 1..Len(imp[p].rstack) :
                  RolePath(imp[p].rstack[i]) \notin DOMAIN vault

\* the text between the double brackets of a link
Inner(t) == SubSeq(t, 3, Len(t) - 2)

Count(s, c) == Cardinality({ i \in 1..Len(s) : s[i] = c })

\* C5: whatever the raw name, the text between the double brackets of a link
\* written by any place of the code holds no bracket and no caret, and no pipe
\* or hash other than the one the link's own template puts (the pipe of the
\* issue's volume link, the hash of a person's work link).
C5_LinksAreSanitized ==
    site # "none" =>
        /\ \A c \in {"[", "]", "^"} : Count(Inner(linkText), c) = 0
        /\ Count(Inner(linkText), "|") = (IF site = "issue.volume" THEN 1 ELSE 0)
        /\ Count(Inner(linkText), "#") = (IF site = "person.work" THEN 1 ELSE 0)

\* C6: any two requests of one client are dispatched at least rateLimitDelay
\* apart, also when a call begins while an earlier one waits.
C6_SpacingPerClient ==
    \A i, j \in 1..Len(dispatched) :
        (i < j /\ dispatched[i].client = dispatched[j].client)
            => dispatched[j].at - dispatched[i].at >= rateLimitDelay

ImportClients == {"issue", "creators"}

\* C7: of the requests of one import, whichever client issues them, at most
\* one is waiting or in flight at a time and any two are dispatched at least
\* rateLimitDelay apart.
C7_ProcessWideGate ==
    /\ Cardinality({ i \in 1..Len(calls) :
                       calls[i].who = "import" /\ calls[i].st # "done" }) <= 1
    /\ \A i, j \in 1..Len(dispatched) :
          (i < j /\ dispatched[i].client \in ImportClients
                 /\ dispatched[j].client \in ImportClients)
              => dispatched[j].at - dispatched[i].at >= rateLimitDelay

Logged(r, x) == \E i \in 1..Len(r.log) : r.log[i] = x

\* C11: an import writes nothing for a creator whose detail fetch failed (the
\* failure having been reported by a Notice), and once the issue note is
\* written every creator of the issue has its detail fetch, whichever fetches
\* failed before.
C11_FetchFailureIsolated ==
    \A p \in Proc :
        LET r == imp[p]
            batch == uniqueCreators(Catalog(r.issue).person_credits)
        IN /\ \A k \in r.failNotices :
                 /\ Logged(r, Ev("fetchPerson", k))
                 /\ ~Logged(r, Ev("writeRole", k))
                 /\ ~Logged(r, Ev("writePerson", k))
           /\ (r.pc = "done" /\ Logged(r, Ev("writeIssue", 0))) =>
                 \A k \in 1..Len(batch) : Logged(r, Ev("fetchPerson", k))

\* the first creator's fetch failed and the second creator's note was written
C11_Witness ==
    \E p \in Proc :
        /\ imp[p].pc = "done"
        /\ imp[p].failNotices = {1}
        /\ Logged(imp[p], Ev("writePerson", 2))

\* the scalar header fields of a person note, and the value that stands for
\* "absent" in each
Scalars == {"entityType", "name", "comicVineId", "comicVineUrl", "birthDate", "deathDate"}

Absent(f) ==
    CASE f = "entityType" -> ""
      [] f = "name" -> <<>>
      [] f = "comicVineId" -> 0
      [] f = "comicVineUrl" -> ""
      [] OTHER -> Null

\* the person notes a step keeps
Kept == { x \in DOMAIN vault : IsPersonNote(vault, x) /\ x \in DOMAIN vault' }

\* C12 as stated: when fresh data is merged into an existing person note, every
\* scalar header field already present keeps exactly the value it had
C12_PresentScalarsKept ==
    [][\A x \in Kept : \A f \in Scalars :
          vault[x].fm[f] # Absent(f) => vault'[x].fm[f] = vault[x].fm[f]]_vars

\* C12: when fresh data is merged into an existing person note, every scalar
\* header field already present keeps its value, except an entity type of
\* "ComicCreator", which becomes "Person"; absent fields are populated from
\* the fetched record
C12_PresentScalarsKeptButLegacyType ==
    [][\A x \in Kept :
          /\ \A f \in Scalars :
                vault[x].fm[f] # Absent(f) =>
                   \/ vault'[x].fm[f] = vault[x].fm[f]
                   \/ /\ f = "entityType"
                      /\ vault[x].fm[f] = "ComicCreator"
                      /\ vault'[x].fm[f] = "Person"
          /\ vault'[x].fm # vault[x].fm =>
                LET d == PersonDetails(imp[1].creators[imp[1].ci].id)
                IN /\ vault[x].fm.name = <<>> => vault'[x].fm.name = d.name
                   /\ vault[x].fm.comicVineId = 0 => vault'[x].fm.comicVineId = d.id
                   /\ vault[x].fm.comicVineUrl = "" =>
                         vault'[x].fm.comicVineUrl = d.site_detail_url
                   /\ vault[x].fm.entityType = "" => vault'[x].fm.entityType = "Person"]_vars

\* a note that held a name, an id and a birth date of its own and no URL has
\* been updated: the URL is the fetched one, the rest is as it was
C12_Witness ==
    /\ IsPersonNote(vault, LegacyPath)
    /\ vault[LegacyPath].fm.modified > 0
    /\ vault[LegacyPath].fm.name = <<"Q">>
    /\ vault[LegacyPath].fm.comicVineId = 9
    /\ vault[LegacyPath].fm.entityType = "Musician"
    /\ vault[LegacyPath].fm.birthDate = [value |-> <<"1","9","4","9">>, year |-> 1949]
    /\ vault[LegacyPath].fm.comicVineUrl = "cv/2"

NoRepeat(list) == Cardinality(SeqToSet(list)) = Len(list)

Grows(before, after) == SeqToSet(before) \subseteq SeqToSet(after)

\* C13: over imports made one after the other, the roles, credits and tags of
\* a person note only grow (every entry held before a step is held after it)
\* and hold no entry twice
C13_ListsOnlyGrow ==
    [][\A x \in Kept :
          /\ Grows(vault[x].fm.roles, vault'[x].fm.roles)
          /\ Grows(vault[x].fm.credits, vault'[x].fm.credits)
          /\ Grows(vault[x].fm.tags, vault'[x].fm.tags)
          /\ NoRepeat(vault'[x].fm.roles)
          /\ NoRepeat(vault'[x].fm.credits)
          /\ NoRepeat(vault'[x].fm.tags)]_vars

\* a note that held the tag "x", the Penciler role and a credit for issue 2
\* has been given the Inker role and the credits of issue 1 next to them
C13_Witness ==
    /\ IsPersonNote(vault, LegacyPath)
    /\ vault[LegacyPath].fm.tags = <<"x", "person", "comic-creator">>
    /\ Len(vault[LegacyPath].fm.roles) = 2
    /\ Includes(vault[LegacyPath].fm.roles, Link(RoleBaseName(RolePenciler)))
    /\ Len(vault[LegacyPath].fm.credits) = 3

\* the role links and credits the creator being processed brings to the note
RoleLinksOf(r) ==
    { Link(RoleBaseName(capitalizedRole(rn))) :
        rn \in SeqToSet(r.creators[r.ci].roles) \ {<<>>} }

\* the note found for the creator holds all the import would give it
HoldsAll(r) ==
    /\ r.personFile # ""
    /\ LET fm == parseFrontmatter(vault[r.personFile]).frontmatter
           d == PersonDetails(r.creators[r.ci].id)
       IN /\ fm.entityType \notin {"", "ComicCreator"}
          /\ fm.name # <<>>
          /\ fm.comicVineId # 0
          /\ fm.comicVineUrl # ""
          /\ fm.birthDate # Null \/ d.birth = <<>>
          /\ fm.deathDate # Null \/ d.death = <<>>
          /\ Includes(fm.tags, "person")
          /\ Includes(fm.tags, "comic-creator")
          /\ \A l \in RoleLinksOf(r) :
                /\ Includes(fm.roles, l)
                /\ Includes(fm.credits, [role |-> l, work |-> Link(IssueBaseName(r.issue))])

\* the step in which the processing of a creator whose details were fetched
\* comes to its end: the note is written (the import goes on to await the
\* write) or the loop moves on
EndsCreator ==
    /\ imp[1].pc \in {"personFetch", "roleCreate"}
    /\ imp'[1].outcome # "failed"
    /\ imp'[1].failNotices = imp[1].failNotices
    /\ imp'[1].pc = "nextCreator" \/ imp'[1].ci = imp[1].ci + 1

PersonWritten ==
    /\ imp'[1].pc = "nextCreator"
    /\ Len(imp'[1].log) = Len(imp[1].log) + 1
    /\ imp'[1].log[Len(imp'[1].log)] = Ev("writePerson", imp[1].ci)

\* C14: a creator whose person note already holds every scalar, both tags and
\* every role link and credit of the import gets no write (the vault is left
\* as it is); otherwise the note is written, with the modification stamp of
\* this import
C14_WriteExactlyWhenChanged ==
    [][EndsCreator =>
          IF HoldsAll(imp[1])
          THEN ~PersonWritten /\ vault' = vault
          ELSE /\ PersonWritten
               /\ LET x == imp'[1].personFile
                  IN /\ IsPersonNote(vault', x)
                     /\ vault'[x].fm.modified = imp[1].n
                     /\ x \in DOMAIN vault =>
                           [vault'[x].fm EXCEPT !.modified = 0]
                              # [vault[x].fm EXCEPT !.modified = 0]]_vars

\* an import has gone through a creator whose note held everything and has
\* written nothing for it: the note is the one the vault started with
C14_Witness ==
    /\ imp[1].pc = "done"
    /\ imp[1].outcome = "created"
    /\ imp[1].issue = 2
    /\ imp[1].failNotices = {}
    /\ ~Logged(imp[1], Ev("writePerson", 1))
    /\ vault[LegacyPath].fm.modified = 0

IssueNotes(v) == { x \in DOMAIN v : v[x].kind = "issue" }

\* C15: an issue note that exists is never deleted or modified; an import
\* whose target path holds a note writes nothing to it
C15_ExistingIssueUntouched ==
    [][/\ \A x \in IssueNotes(vault) : x \in DOMAIN vault' /\ vault'[x] = vault[x]
       /\ \A p \in Proc :
             (imp[p].pc = "volFetch" /\ IssuePath(imp[p].issue) \in DOMAIN vault) =>
                imp'[p].log = imp[p].log]_vars

\* an import has found a note at its target path and ended; the note is the
\* one an earlier import wrote
C15_Witness ==
    \E p \in Proc :
        /\ imp[p].pc = "done"
        /\ imp[p].outcome = "exists"
        /\ ~Logged(imp[p], Ev("writeIssue", 0))
        /\ vault[IssuePath(imp[p].issue)].created # imp[p].n

\* the import ended in createIssueNote's catch block before the issue note was
\* written: getIssueDetails or getVolumeDetails failed
PrimaryFetchFailed(r) ==
    r.pc = "done" /\ r.outcome = "failed" /\ ~Logged(r, Ev("writeIssue", 0))

\* C19 as stated: an import whose issue-detail or volume-detail fetch failed
\* has written no document, and the promise createIssueNote returned to its
\* caller is rejected
C19_PrimaryFailureSurfaced ==
    \A p \in Proc :
        PrimaryFetchFailed(imp[p]) =>
           /\ \A i \in 1..Len(imp[p].log) : ~IsWrite(imp[p].log[i])
           /\ imp[p].promise = "rejected"

\* the person notes whose header carries the external id
WithId(id) ==
    { x \in DOMAIN vault : IsPersonNote(vault, x) /\ vault[x].hasFm
                           /\ vault[x].fm.comicVineId = id }

\* C20: the note found for a creator is one whose header id is the creator's
\* id whenever there is one, even when another note has the creator's name as
\* its file name; with no such note it is the note named after the creator;
\* with neither, nothing is found
C20_IdBeforeName ==
    imp[1].pc = "personFetch" =>
       LET c == imp[1].creators[imp[1].ci]
           found == imp[1].personFile
       IN /\ WithId(c.id) # {} => found \in WithId(c.id)
          /\ (WithId(c.id) = {} /\ IsPersonNote(vault, PersonPath(c.name))) =>
                found = PersonPath(c.name)
          /\ (WithId(c.id) = {} /\ ~IsPersonNote(vault, PersonPath(c.name))) =>
                found = ""

\* a creator named as one note's file and carrying the id of another note's
\* header has been looked up: the note with the id is the one found
C20_Witness ==
    /\ imp[1].pc = "personFetch"
    /\ imp[1].creators[imp[1].ci].id = 2
    /\ PersonPath(imp[1].creators[imp[1].ci].name) = LegacyPath
    /\ IsPersonNote(vault, LegacyPath)
    /\ vault[LegacyPath].fm.comicVineId = 9
    /\ imp[1].personFile # LegacyPath
    /\ imp[1].personFile # ""

\* what the statement asks of a decomposed date
Decomposed(in, out) ==
    /\ in = <<"1","9","8","6","-","0","9">> => out = [value |-> in, year |-> 1986, month |-> 9]
    /\ in = <<"1","9","8","6">> => out = [value |-> in, year |-> 1986]
    /\ ~Fields(in).ok => out = [value |-> in]
    /\ "year" \in DOMAIN out => out.year > 99

\* C16 as stated: the decomposition of a cover date gives value, year and
\* month and no day for "1986-09", value and year only for "1986", the value
\* alone for a string that is no date, and numeric fields only for a year
\* above 99
C16_CoverDateDecomposed ==
    fnDone = "coverDate" => Decomposed(rawText, dateOut)

RolesOf(creators) == [k \in 1..Len(creators) |-> creators[k].role]

\* C17: canonicalizing a role string (split on commas, trim each segment,
\* capitalize the first letter of each word, drop empty segments) and
\* canonicalizing the result again gives the same roles
C17_CanonicalizeIdempotent ==
    (fnDone = "creators" /\ Len(rawCredits) = 1) =>
       LET R == canonicalizeRole(rawText)
       IN /\ RolesOf(creatorsOut) = Dedup(R)
          /\ \A k \in 1..Len(R) : canonicalizeRole(R[k]) = <<R[k]>>
          /\ canonicalizeRole(Join(R, <<",">>)) = R
          /\ canonicalizeRole(Join(R, <<",", " ">>)) = R

\* a role string of two segments with blanks around them has been canonicalized
C17_Witness ==
    /\ fnDone = "creators"
    /\ rawText = <<" ", "a", ",", "B">>
    /\ RolesOf(creatorsOut) = << <<"A">>, <<"B">> >>

\* the fixed table of roles and their ontology keys
RoleTable ==
    { <<<<"w","r","i","t","e","r">>, <<"w","r","i","t","t","e","n","B","y">>>>,
      <<<<"s","c","r","i","p","t">>, <<"w","r","i","t","t","e","n","B","y">>>>,
      <<<<"e","d","i","t","o","r">>, <<"e","d","i","t","e","d","B","y">>>>,
      <<<<"p","e","n","c","i","l","e","r">>, <<"p","e","n","c","i","l","e","r">>>>,
      <<<<"p","e","n","c","i","l","l","e","r">>, <<"p","e","n","c","i","l","e","r">>>>,
      <<<<"i","n","k","e","r">>, <<"i","n","k","e","r">>>>,
      <<<<"c","o","l","o","r","i","s","t">>, <<"c","o","l","o","r","i","s","t">>>>,
      <<<<"l","e","t","t","e","r","e","r">>, <<"l","e","t","t","e","r","e","r">>>>,
      <<<<"c","o","v","e","r"," ","a","r","t","i","s","t">>, <<"c","o","v","e","r","A","r","t","i","s","t">>>>,
      <<<<"c","o","v","e","r">>, <<"c","o","v","e","r","A","r","t","i","s","t">>>>,
      <<<<"a","r","t","i","s","t">>, <<"c","o","n","t","r","i","b","u","t","e","d","T","o">>>>,
      <<<<"c","r","e","a","t","o","r">>, <<"c","r","e","a","t","o","r">>>> }

KeyFor(role) ==
    LET lower == Trim(ToLower(role))
    IN IF \E e \in RoleTable : e[1] = lower
       THEN (CHOOSE e \in RoleTable : e[1] = lower)[2]
       ELSE <<"c","o","n","t","r","i","b","u","t","e","d","T","o">>

\* the header lists the person under the key
Under(header, key, name) ==
    \E k \in 1..Len(header) :
        header[k].key = key /\ Includes(header[k].people, Link(name))

\* C18 as stated: in the issue header every credited person stands under the
\* ontology key of each of their roles (Chris Claremont under writtenBy, John
\* Byrne under penciler and under inker), the key being the table's for a
\* role of the table and contributedTo for every other role
C18_PersonUnderKeyOfEachRole ==
    fnDone = "header" =>
       /\ rawCredits = ExampleCredits =>
             /\ Under(headerOut, <<"w","r","i","t","t","e","n","B","y">>, <<"C","h","r","i","s"," ","C","l","a","r","e","m","o","n","t">>)
             /\ Under(headerOut, <<"p","e","n","c","i","l","e","r">>, <<"J","o","h","n"," ","B","y","r","n","e">>)
             /\ Under(headerOut, <<"i","n","k","e","r">>, <<"J","o","h","n"," ","B","y","r","n","e">>)
       /\ \A i \in 1..Len(rawCredits) :
             \A role \in SeqToSet(canonicalizeRole(rawCredits[i].role)) :
                Under(headerOut, KeyFor(role), cleanForWikilink(rawCredits[i].name))

\* C25 as stated: a person note whose header holds the external id i gets its
\* roles and credits changed only while the creator being processed has the
\* id i; a creator of another id never reaches it, whatever the names are
C25_OneNotePerCreatorId ==
    [][\A x \in Kept :
          (/\ vault[x].fm.comicVineId # 0
           /\ \/ vault'[x].fm.roles # vault[x].fm.roles
              \/ vault'[x].fm.credits # vault[x].fm.credits)
             => imp[1].creators[imp[1].ci].id = vault[x].fm.comicVineId]_vars

\* the note the lookup gives for the creator holds a credit for the issue
HasCredit(c, i) ==
    LET x == findPersonNote(vault, c.id, c.name)
    IN /\ x # ""
       /\ \E k \in 1..Len(vault[x].fm.credits) :
             vault[x].fm.credits[k].work = Link(IssueBaseName(i))

\* C26 as stated: once an import of an issue has ended with no failure
\* reported (also an import that repeats one in which a creator's detail fetch
\* failed), every credited creator of the issue has a person note that holds a
\* credit for the issue
C26_RetryRepairsFailedCreator ==
    \A p \in Proc :
        LET r == imp[p]
            batch == uniqueCreators(Catalog(r.issue).person_credits)
        IN (r.pc = "done" /\ r.outcome # "failed" /\ r.failNotices = {}) =>
              \A k \in 1..Len(batch) : HasCredit(batch[k], r.issue)

\* C28 as stated: an import that ran into an error after its issue note was
\* written (the creation of a role note or of a person note was rejected) has
\* nevertheless gone through every creator of the issue
C28_WriteFailureIsolated ==
    \A p \in Proc :
        LET r == imp[p]
            batch == uniqueCreators(Catalog(r.issue).person_credits)
        IN (r.pc = "done" /\ r.outcome = "failed" /\ Logged(r, Ev("writeIssue", 0))) =>
              \A k \in 1..Len(batch) : Logged(r, Ev("fetchPerson", k))

\* C29 as stated: after single-issue imports and volume imports in any order,
\* no two issue notes of the vault carry the same external issue id
C29_OneIssueNotePerId ==
    \A x, y \in IssueNotes(vault) : vault[x].id = vault[y].id => x = y

\* the positions of import r's history at which a request or a write for the
\* creator id happened
EventsOf(r, e, id) ==
    { i \in 1..Len(r.log) : r.log[i].e = e /\ r.creators[r.log[i].k].id = id }

\* the step is a write of import p's current creator's person note
WritesPerson(p) ==
    /\ Len(imp'[p].log) = Len(imp[p].log) + 1
    /\ imp'[p].log[Len(imp'[p].log)] = Ev("writePerson", imp[p].ci)

\* C30: within one import every credited creator id has at most one detail
\* fetch and at most one write of its person note, however many credit entries
\* and comma-separated roles the issue lists for the id, and that write holds
\* the role link and the credit of every one of those roles
C30_OneFetchOneWritePerId ==
    [][\A p \in Proc :
          LET r == imp'[p]
              credits == Catalog(r.issue).person_credits
          IN /\ \A k \in 1..Len(credits) :
                   /\ Cardinality(EventsOf(r, "fetchPerson", credits[k].id)) <= 1
                   /\ Cardinality(EventsOf(r, "writePerson", credits[k].id)) <= 1
             /\ WritesPerson(p) =>
                   LET id == imp[p].creators[imp[p].ci].id
                       fm == vault'[r.personFile].fm
                   IN \A k \in 1..Len(credits) :
                         credits[k].id = id =>
                            \A rn \in SeqToSet(SplitRoles(credits[k].role)) \ {<<>>} :
                               LET l == Link(RoleBaseName(capitalizedRole(rn)))
                               IN /\ Includes(fm.roles, l)
                                  /\ Includes(fm.credits,
                                              [role |-> l, work |-> Link(IssueBaseName(r.issue))])]_vars

\* an import of the issue that credits one id twice (once as "writer, ", once
\* as Penciler) has ended: the id was written once, with both roles
C30_Witness ==
    \E p \in Proc :
        /\ imp[p].pc = "done"
        /\ imp[p].outcome = "created"
        /\ Len(Catalog(imp[p].issue).person_credits) > Len(imp[p].creators)
        /\ Cardinality(EventsOf(imp[p], "writePerson", imp[p].creators[1].id)) = 1
        /\ Len(vault[PersonPath(imp[p].creators[1].name)].fm.roles) = 2

\* the value of a header entry is absent or empty
EmptyValue(e) ==
    CASE e.t = "list" -> e.v = <<>>
      [] e.t = "text" -> e.v = <<>>
      [] e.t = "date" -> e.v = Null
      [] OTHER -> FALSE

\* C23 as stated: the assembled issue header has no key whose value is absent
\* or empty (no storeDate key without a store date, no coverUrl key without a
\* cover, no empty aliases list without a name), except lastRead, which is
\* null on a new issue note
C23_NoEmptyHeaderKeys ==
    fnDone = "issueYaml" =>
       \A k \in 1..Len(issueYaml) :
          EmptyValue(issueYaml[k]) => issueYaml[k].key = "lastRead"

RECURSIVE CollapseHyphens(_)
CollapseHyphens(s) ==
    IF Len(s) < 2 THEN s
    ELSE IF s[1] = "-" /\ s[2] = "-" THEN CollapseHyphens(Tail(s))
         ELSE <<s[1]>> \o CollapseHyphens(Tail(s))

RECURSIVE TrimHyphens(_)
TrimHyphens(s) ==
    IF s = <<>> THEN <<>>
    ELSE IF Head(s) = "-" THEN TrimHyphens(Tail(s))
    ELSE IF s[Len(s)] = "-" THEN TrimHyphens(SubSeq(s, 1, Len(s) - 1))
    ELSE s

\* the tag the statement describes: lower case, every run of spaces a hyphen,
\* nothing outside [a-z0-9-], repeated hyphens collapsed, no hyphen at either
\* end, "unknown" when nothing remains
TagAsStated(text) ==
    LET spaced == SpacesToHyphen(ToLower(text))
        kept == SelectSeq(spaced, LAMBDA c :
                    c \in SeqToSet(LowerLetters) \cup SeqToSet(Digits) \cup {"-"})
        tag == TrimHyphens(CollapseHyphens(kept))
    IN IF tag = <<>> THEN <<"u","n","k","n","o","w","n">> ELSE tag

\* C24 as stated: sanitizeForTag gives, for every text, the non-empty tag over
\* [a-z0-9-] in which each run of spaces has become a hyphen, with no repeated
\* hyphen and no hyphen at either end, and "unknown" when nothing remains
C24_TagIsClean ==
    fnDone = "tag" => tagOut = TagAsStated(rawText)

C22_EnvelopeErrorThrows ==
    fnDone = "client" =>
       LET failed == \/ apiCall.first.error # "OK"
                     \/ apiOut.requests = 2 /\ apiCall.second.error # "OK"
       IN failed => apiOut.kind = "throws"

\* the search started last
LatestSearch ==
    LET S == { i \in 1..Len(calls) : calls[i].who = "search" }
    IN IF S = {} THEN 0 ELSE CHOOSE i \in S : \A j \in S : j <= i

\* C27 as stated: the results the modal shows are those of the search started
\* last, in whatever order the responses arrive, and no results are rendered
\* after the modal was closed
C27_OnlyLatestSearchRendered ==
    /\ resultsContainer.shown \in {0, LatestSearch}
    /\ ~resultsContainer.renderedClosed

====
